---- MODULE Spec2Model ----
(***************************************************************************)
(* Model of the leaktk scan orchestration engine:                          *)
(*   - pkg/queue PriorityQueue (Send, Recv, the forwarding goroutine and   *)
(*     its two condition variables),                                       *)
(*   - pkg/scanner Patterns.Gitleaks (the pattern cache),                  *)
(*   - pkg/scanner Scanner (Send, the listen workers, cloneGitRepo and     *)
(*     the clone clean-up).                                                *)
(* In SpecQueue every goroutine is a process with a program counter; one   *)
(* action is one atomic step of the Go code (a mutex-protected section, a  *)
(* channel rendezvous, a condition-variable operation). SpecPatterns       *)
(* follows calls of Patterns.Gitleaks, each a single step under c.mutex.   *)
(* SpecScanner follows the workers through listen, using the scan queue    *)
(* through whole calls of Send and whole hand-offs to Recv.                *)
(* SpecMutex follows concurrent callers of Patterns.Gitleaks through the   *)
(* mutex, SpecGit the git subprocesses of one cloned request against its   *)
(* deadline, and SpecClient a queue with one sender whose receiver starts  *)
(* after the last Send. SpecDepth follows Opts.Depth of a remote GitRepo   *)
(* request to the clone and the scan, SpecListen the listen command over   *)
(* the lines of its input, SpecResult findingToResult on one finding, and  *)
(* SpecImage a ContainerImage request through the layers of its image.     *)
(* SpecParse follows one call of gitleaks.ParseConfig, SpecOverlay two     *)
(* requests from detect.NewDetector through loadSourceConfig to the scan,  *)
(* SpecOffline the pattern cache of a scanner without autofetch, and       *)
(* SpecLocal one request from its construction to its scan, with what its  *)
(* resource names.                                                         *)
(***************************************************************************)
EXTENDS Naturals, Integers, Sequences, FiniteSets, TLC

\* ------------------------------------------------------------------ bounds
\* Number of messages the clients of one queue may send.
MaxMsgs == 2
\* Largest message priority the clients use (priorities are 0..MaxPriority).
MaxPriority == 1
\* Largest configured maxSize of a queue (0 = unbounded).
MaxQueueSize == 2

Priorities == 0 .. MaxPriority
MaxSizes == 0 .. MaxQueueSize

\* Goroutines calling PriorityQueue.Send and goroutines running Recv.
Senders == {"c1", "c2"}
Receivers == {"w1", "w2"}

NoMsg == [id |-> 0, Priority |-> 0]

VARIABLES
    maxSize,        \* pq.maxSize
    heap,           \* pq.heap: the messages held by the MessageHeap
    nextId,         \* identity of the next *Message allocated by a client
    pumpPc,         \* position of the forwarding goroutine
    pumpMsg,        \* msg popped by the forwarding goroutine, not yet handed off
    sPc,            \* position of each sender inside Send
    sMsg,           \* the message each sender is sending
    spaceWaiters,   \* goroutines waiting on maxSizeCond, in Wait order
    rPc,            \* position of each receiver inside Recv
    rMsg,           \* the message a receiver's callback is running on
    delivered       \* history: [msg, by] for every message handed to a callback

qvars == <<maxSize, heap, nextId, pumpPc, pumpMsg, sPc, sMsg,
           spaceWaiters, rPc, rMsg, delivered>>

\* The pattern cache (Patterns) and its configuration
VARIABLES
    autofetch,           \* patternsConfig.Autofetch
    refreshAfter,        \* patternsConfig.RefreshAfter, seconds
    expiredAfter,        \* patternsConfig.ExpiredAfter, seconds
    gitleaksConfig,      \* c.gitleaksConfig: Nil or the parsed config
    gitleaksConfigHash,  \* c.gitleaksConfigHash
    localFile,           \* the bytes at Gitleaks.LocalPath, or NoFile
    fileAge,             \* seconds since the modification time of LocalPath
    lastLoad             \* history: inputs and result of the latest call of Gitleaks

pvars == <<autofetch, refreshAfter, expiredAfter, gitleaksConfig,
           gitleaksConfigHash, localFile, fileAge, lastLoad>>

\* The scanner: its configuration, its workers (the receivers of the scan
\* queue) and the clones directory
VARIABLES
    allowLocal,     \* s.allowLocal
    scanTimeout,    \* s.scanTimeout, seconds (0: no timeout)
    reqs,           \* history: the requests passed to Scanner.Send, by message id
    wDir,           \* per worker: gitDir of its current request
    wDefer,         \* per worker: the deferred removal is registered
    dirs,           \* the directories that exist under {workdir}/clones
    localDirs,      \* the local paths named by requests that exist
    nextDir,        \* the next value of id.ID() used as a directory name
    responses       \* history: per request, the responses sent to the response queue

wvars == <<allowLocal, scanTimeout, reqs, wDir, wDefer, dirs, localDirs,
           nextDir, responses>>

\* Callers of Patterns.Gitleaks followed through c.mutex
VARIABLES
    mutex,          \* c.mutex: "free" or the caller holding it
    gPc,            \* per caller: position inside Gitleaks
    gSaw,           \* history, per caller: while it waited in c.mutex.Lock a
                    \* fetch succeeded and was persisted
    gRet            \* history, per caller: what its latest call came to

mvars == <<mutex, gPc, gSaw, gRet>>

\* The git subprocesses of one GitRepo request that is cloned
VARIABLES
    gitPc,      \* the git command the worker is at, "scan" or "done"
    gitWait,    \* the worker is inside Run/Output/CombinedOutput of that command
    gitExit,    \* how the awaited git process ended
    procs,      \* the operating system processes alive
    gitCtxDone,    \* the request's context is done: its deadline has elapsed
    gitCode     \* Error.Code of the Response emitted (noCode: no error)

gvars == <<gitPc, gitWait, gitExit, procs, gitCtxDone, gitCode>>

\* The depth of history of one remote GitRepo request
VARIABLES
    optsDepth,      \* request.Opts.Depth
    maxScanDepth,   \* s.maxScanDepth
    depthPc,        \* the worker is before the clone, before the scan, or done
    cloneDepthArg,  \* the number after --depth in the clone's arguments (0: no --depth)
    scanDepthOpt    \* GitScanOpts.Depth passed to ScanGit (0: no limit)

dvars == <<optsDepth, maxScanDepth, depthPc, cloneDepthArg, scanDepthOpt>>

\* The listen command: lines on stdin, the scanner behind it, stdout
VARIABLES
    lines,          \* the lines that stdin delivers, in order
    nextLine,       \* position of the next line readLine returns
    listenPc,       \* runListen is in its loop, in wg.Wait(), or has returned
    accepted,       \* history: the Requests json.Unmarshal returned without error
    sent,           \* positions of the lines whose Request went to Scanner.Send
    answered        \* positions of the lines whose Response was printed

lvars == <<lines, nextLine, listenPc, accepted, sent, answered>>

\* findingToResult: the kind of the request, finding.File as a sequence of
\* path tokens, the position of the call and the Result it returned
VARIABLES
    frRequestKind,  \* request.Kind
    frFile,         \* finding.File
    frPc,           \* "call" before findingToResult, "done" after
    frResult        \* the Result: Kind, Location.Path and the manifest note

rvars == <<frRequestKind, frFile, frPc, frResult>>

\* A ContainerImage request on its way through listen, ScanContainerImage and
\* ContainerImage.Fragments
VARIABLES
    imgOpts,            \* request.Opts: Depth, Since, Exclusions
    imgSource,          \* the ContainerImage source: Depth, Since, Exclusions
    imgLayers,          \* imageManifest.LayerInfos() with their history entry
    imgHistoriesMatch,  \* len(layerInfos) == len(configHistories)
    imgPc,              \* "listen", "layers", "done"
    imgIndex,           \* i of the loop over layerInfos
    currentDepth,       \* currentDepth
    imgScanned          \* indexes of the layers whose blob went to the detector

ivars == <<imgOpts, imgSource, imgLayers, imgHistoriesMatch, imgPc, imgIndex, currentDepth, imgScanned>>

\* One call of gitleaks.ParseConfig
VARIABLES
    parseRaw,       \* rawConfig
    parsePanics,    \* vc.Translate() panics on it
    parsePc,        \* "call" before ParseConfig, "done" after
    parseResult     \* (cfg, err)

cvars == <<parseRaw, parsePanics, parsePc, parseResult>>

\* Two requests past Patterns.Gitleaks, on different workers: detect.NewDetector
\* on the cached config, loadSourceConfig, the scan
VARIABLES
    ovKind,         \* per request: request.Kind
    ovFiles,        \* per request: the overlay files under its source path
    cfgArray,       \* the array behind c.gitleaksConfig.Allowlists
    cfgLen,         \* len(c.gitleaksConfig.Allowlists)
    detShared,      \* per request: detector.Config.Allowlists is a slice of cfgArray
    detArray,       \* per request: the array append allocated for it, if any
    detLen,         \* per request: len(detector.Config.Allowlists)
    detRules,       \* per request: the rules of detector.Config
    detExtras,      \* per request: baseline and gitleaksignore registered
    ovPc,           \* per request: "new", "load", "scan", "done"
    scannedWith     \* per request: the allowlists its scan ran with

ovars == <<ovKind, ovFiles, cfgArray, cfgLen, detShared, detArray, detLen, detRules, detExtras, ovPc, scannedWith>>


\* One request from the command that builds it to the scan, and where the
\* content it scans comes from
VARIABLES
    lpEntry,        \* "scan": built by scanCommandToRequest; "listen": decoded from a line
    lpAllowLocal,   \* s.allowLocal
    lpRequest,      \* Kind, Opts.Local, and what Resource names
    lpPc,           \* "build", "route", "scan", "done"
    lpCloneFrom,    \* what git clone was given as source: "none", "url", "path"
    lpScanned,      \* where the scanned content was: "none", "remote", "local", "inline"
    lpCode          \* Error.Code of the Response

avars == <<lpEntry, lpAllowLocal, lpRequest, lpPc, lpCloneFrom, lpScanned, lpCode>>

xvars == <<dvars, lvars, rvars, ivars, cvars, ovars, avars>>

vars == <<qvars, pvars, wvars, mvars, gvars, xvars>>

\* --------------------------------------------------------------- the heap
\* MessageHeap.Len
HeapLen == Cardinality(heap)

\* PriorityQueue.Size: the heap length read under heapMutex
Size == HeapLen

\* The messages heap.Pop may return: one of highest priority
HeapTop == {m \in heap : \A o \in heap : o.Priority <= m.Priority}

\* ------------------------------------------------------------------ Send
\* A client calls Send with a freshly built message.
SendBegin(s, p) ==
    /\ sPc[s] = "idle"
    /\ sMsg' = [sMsg EXCEPT ![s] = [id |-> nextId, Priority |-> p]]
    /\ nextId' = nextId + 1
    /\ sPc' = [sPc EXCEPT ![s] = "check"]
    /\ UNCHANGED <<maxSize, heap, pumpPc, pumpMsg, spaceWaiters,
                   rPc, rMsg, delivered>>

\* for pq.maxSize > 0 && pq.Size() >= pq.maxSize { ... }
SendCheck(s) ==
    /\ sPc[s] = "check"
    /\ sPc' = [sPc EXCEPT ![s] =
                 IF maxSize > 0 /\ Size >= maxSize THEN "towait" ELSE "push"]
    /\ UNCHANGED <<maxSize, heap, nextId, pumpPc, pumpMsg, sMsg,
                   spaceWaiters, rPc, rMsg, delivered>>

\* waitForSpaceOnQueue: L.Lock(); Wait() suspends the caller on maxSizeCond
SendWait(s) ==
    /\ sPc[s] = "towait"
    /\ sPc' = [sPc EXCEPT ![s] = "waiting"]
    /\ spaceWaiters' = Append(spaceWaiters, s)
    /\ UNCHANGED <<maxSize, heap, nextId, pumpPc, pumpMsg, sMsg,
                   rPc, rMsg, delivered>>

\* heap.Push under heapMutex
SendPush(s) ==
    /\ sPc[s] = "push"
    /\ heap' = heap \cup {sMsg[s]}
    /\ sPc' = [sPc EXCEPT ![s] = "signal"]
    /\ UNCHANGED <<maxSize, nextId, pumpPc, pumpMsg, sMsg,
                   spaceWaiters, rPc, rMsg, delivered>>

\* signalMessageRecieved: msgCond.Signal() wakes the forwarding goroutine when
\* it is suspended in Wait, and does nothing otherwise; then Send returns.
SendSignal(s) ==
    /\ sPc[s] = "signal"
    /\ pumpPc' = IF pumpPc = "waiting" THEN "pop" ELSE pumpPc
    /\ sPc' = [sPc EXCEPT ![s] = "idle"]
    /\ sMsg' = [sMsg EXCEPT ![s] = NoMsg]
    /\ UNCHANGED <<maxSize, heap, nextId, pumpMsg, spaceWaiters,
                   rPc, rMsg, delivered>>

\* ------------------------------------------------- the forwarding goroutine
\* if pq.Size() == 0 { pq.waitForMessage() }
PumpCheck ==
    /\ pumpPc = "check"
    /\ pumpPc' = IF Size = 0 THEN "towait" ELSE "pop"
    /\ UNCHANGED <<maxSize, heap, nextId, pumpMsg, sPc, sMsg,
                   spaceWaiters, rPc, rMsg, delivered>>

\* waitForMessage: L.Lock(); Wait() suspends the goroutine on msgCond
PumpWait ==
    /\ pumpPc = "towait"
    /\ pumpPc' = "waiting"
    /\ UNCHANGED <<maxSize, heap, nextId, pumpMsg, sPc, sMsg,
                   spaceWaiters, rPc, rMsg, delivered>>

\* A forwarding goroutine that reads the top of the heap without removing it
PumpPeek ==
    /\ pumpPc = "pop"
    /\ IF HeapLen = 0
         THEN /\ pumpPc' = "check"
              /\ UNCHANGED pumpMsg
         ELSE \E m \in HeapTop :
                /\ pumpMsg' = m
                /\ pumpPc' = "handoff"
    /\ UNCHANGED <<maxSize, heap, nextId, sPc, sMsg, spaceWaiters,
                   rPc, rMsg, delivered>>

\* A forwarding goroutine that removes whichever message of the heap
PumpPopAny ==
    /\ pumpPc = "pop"
    /\ IF HeapLen = 0
         THEN /\ pumpPc' = "check"
              /\ UNCHANGED <<heap, pumpMsg>>
         ELSE \E m \in heap :
                /\ heap' = heap \ {m}
                /\ pumpMsg' = m
                /\ pumpPc' = "handoff"
    /\ UNCHANGED <<maxSize, nextId, sPc, sMsg, spaceWaiters,
                   rPc, rMsg, delivered>>

\* A forwarding goroutine that pops without looking at the length again
PumpPopUnchecked ==
    /\ pumpPc = "pop"
    /\ IF HeapLen = 0
         THEN /\ pumpMsg' = NoMsg
              /\ pumpPc' = "handoff"
              /\ UNCHANGED heap
         ELSE \E m \in HeapTop :
                /\ heap' = heap \ {m}
                /\ pumpMsg' = m
                /\ pumpPc' = "handoff"
    /\ UNCHANGED <<maxSize, nextId, sPc, sMsg, spaceWaiters,
                   rPc, rMsg, delivered>>

\* heapMutex.Lock(); if Len() == 0 { continue }; msg := heap.Pop(); Unlock()
PumpPop ==
    /\ pumpPc = "pop"
    /\ IF HeapLen = 0
         THEN /\ pumpPc' = "check"
              /\ UNCHANGED <<heap, pumpMsg>>
         ELSE \E m \in HeapTop :
                /\ heap' = heap \ {m}
                /\ pumpMsg' = m
                /\ pumpPc' = "handoff"
    /\ UNCHANGED <<maxSize, nextId, sPc, sMsg, spaceWaiters,
                   rPc, rMsg, delivered>>

\* pq.out <- msg meets `for msg := range pq.out` of one receiver, which then
\* calls fn(msg)
PumpHandoff(r) ==
    /\ pumpPc = "handoff"
    /\ rPc[r] = "recv"
    /\ rPc' = [rPc EXCEPT ![r] = "callback"]
    /\ rMsg' = [rMsg EXCEPT ![r] = pumpMsg]
    /\ delivered' = delivered \cup {[msg |-> pumpMsg, by |-> r]}
    /\ pumpMsg' = NoMsg
    /\ pumpPc' = "notify"
    /\ UNCHANGED <<maxSize, heap, nextId, sPc, sMsg, spaceWaiters>>

\* if pq.maxSize > 0 && pq.Size() < pq.maxSize { ... }
PumpNotify ==
    /\ pumpPc = "notify"
    /\ pumpPc' = IF maxSize > 0 /\ Size < maxSize THEN "signal" ELSE "check"
    /\ UNCHANGED <<maxSize, heap, nextId, pumpMsg, sPc, sMsg, spaceWaiters,
                   rPc, rMsg, delivered>>

\* signalQueueSpaceAvailable: maxSizeCond.Signal() wakes the longest waiting
\* sender, which goes back to its loop condition; no waiter, no effect
PumpSignal ==
    /\ pumpPc = "signal"
    /\ pumpPc' = "check"
    /\ IF spaceWaiters = <<>>
         THEN UNCHANGED <<spaceWaiters, sPc>>
         ELSE /\ spaceWaiters' = Tail(spaceWaiters)
              /\ sPc' = [sPc EXCEPT ![Head(spaceWaiters)] = "check"]
    /\ UNCHANGED <<maxSize, heap, nextId, pumpMsg, sMsg,
                   rPc, rMsg, delivered>>

\* ------------------------------------------------------------------ Recv
\* go pq.Recv(fn): the receiver starts ranging over pq.out
RecvStart(r) ==
    /\ rPc[r] = "off"
    /\ rPc' = [rPc EXCEPT ![r] = "recv"]
    /\ UNCHANGED <<maxSize, heap, nextId, pumpPc, pumpMsg, sPc, sMsg,
                   spaceWaiters, rMsg, delivered>>

\* fn(msg) returns and the receiver goes back to the channel
RecvDone(r) ==
    /\ rPc[r] = "callback"
    /\ rPc' = [rPc EXCEPT ![r] = "recv"]
    /\ rMsg' = [rMsg EXCEPT ![r] = NoMsg]
    /\ UNCHANGED <<maxSize, heap, nextId, pumpPc, pumpMsg, sPc, sMsg,
                   spaceWaiters, delivered>>


\* ------------------------------------------------------- the pattern cache
\* Largest file age the clock is followed to, in seconds.
MaxAge == 3

\* Raw pattern files: what toml.Decode, ViperConfig.Translate and validate see
\* of them (rules: number of rules; allowlists: for each allowlist, whether one
\* of paths, regexes, stopwords, commits is non-empty).
GoodBody == [text |-> "rules-v1", decodes |-> TRUE, translates |-> TRUE,
             rules |-> 1, allowlists |-> <<TRUE>>]
NewBody == [text |-> "rules-v2", decodes |-> TRUE, translates |-> TRUE,
            rules |-> 2, allowlists |-> <<>>]
NotTomlBody == [text |-> "not toml", decodes |-> FALSE, translates |-> FALSE,
                rules |-> 0, allowlists |-> <<>>]
NoRulesBody == [text |-> "title only", decodes |-> TRUE, translates |-> TRUE,
                rules |-> 0, allowlists |-> <<>>]
Bodies == {GoodBody, NewBody, NotTomlBody, NoRulesBody}
\* No file at LocalPath; no body in an HTTP answer
NoFile == [text |-> "<no file>", decodes |-> FALSE, translates |-> FALSE,
           rules |-> 0, allowlists |-> <<>>]
NoBody == [text |-> "<no body>", decodes |-> FALSE, translates |-> FALSE,
           rules |-> 0, allowlists |-> <<>>]

\* What fetchConfig can meet: a transport error, a status other than 200, or
\* status 200 with a body
FetchOutcomes ==
    {[status |-> "transport", body |-> NoBody], [status |-> "500", body |-> NoBody]}
      \cup {[status |-> "200", body |-> b] : b \in Bodies}
\* The answers of the server the scanner is followed under
ScannerFetches ==
    {f \in FetchOutcomes : f.status # "500" /\ f.body \in {NoBody, GoodBody, NotTomlBody}}
NoFetch == [status |-> "none", body |-> NoBody]
\* What updateLocalConfig can meet: success, os.MkdirAll failing, os.WriteFile
\* failing to open the file, or failing after the file was truncated
WriteOutcomes == {"ok", "mkdirfail", "openfail", "partial"}
\* What a write that failed after truncation leaves at LocalPath
PartialFile == [text |-> "<cut>", decodes |-> TRUE, translates |-> TRUE,
                rules |-> 0, allowlists |-> <<>>]

\* A nil *config.Config
Nil == [Rules |-> 0, Allowlists |-> <<>>, nil |-> TRUE]
ZeroHash == [sum |-> ""]

\* sha256.Sum256(raw): distinct for distinct bytes
Sha256(raw) == [sum |-> raw.text]

\* A validate that is content with one allowlist that allows something
validateAnyAllowlist(cfg) ==
    IF cfg.Rules = 0 /\ Len(cfg.Allowlists) = 0
      THEN "no rules or allowlists"
      ELSE IF Len(cfg.Allowlists) > 0
                /\ \A i \in 1 .. Len(cfg.Allowlists) : ~cfg.Allowlists[i]
             THEN "an allowlist exists that doesn't allow anything"
             ELSE "ok"

\* validate(cfg)
validate(cfg) ==
    IF cfg.Rules = 0 /\ Len(cfg.Allowlists) = 0
      THEN "no rules or allowlists"
      ELSE IF \E i \in 1 .. Len(cfg.Allowlists) : ~cfg.Allowlists[i]
             THEN "an allowlist exists that doesn't allow anything"
             ELSE "ok"

\* gitleaks.ParseConfig(rawConfig): (cfg, err). cfg is assigned once the text
\* decoded and translated, so a config that fails validate comes back non-nil
\* together with the error.
ParseConfig(raw) ==
    IF ~raw.decodes
      THEN [cfg |-> Nil, err |-> TRUE]
      ELSE IF ~raw.translates
             THEN [cfg |-> Nil, err |-> TRUE]
             ELSE LET cfg == [Rules |-> raw.rules, Allowlists |-> raw.allowlists,
                              nil |-> FALSE]
                  IN  [cfg |-> cfg, err |-> validate(cfg) # "ok"]

\* A configModTimeExceeds that looks for the file before it looks at the limit
configModTimeExceedsStatFirst(modTimeLimit) ==
    IF localFile = NoFile
      THEN TRUE
      ELSE modTimeLimit # 0 /\ fileAge > modTimeLimit

\* configModTimeExceeds(localPath, modTimeLimit)
configModTimeExceeds(modTimeLimit) ==
    IF modTimeLimit = 0
      THEN FALSE
      ELSE IF localFile # NoFile
             THEN fileAge > modTimeLimit
             ELSE TRUE

\* What a call of Gitleaks comes to: the branch taken, the returned (cfg, err),
\* and the values of c.gitleaksConfig, c.gitleaksConfigHash and of the file at
\* LocalPath when it returns (wrote: the file was written)
Outcome(branch, cfg, err, config, hash, file, wrote) ==
    [branch |-> branch, cfg |-> cfg, err |-> err, config |-> config,
     hash |-> hash, file |-> file, wrote |-> wrote]

\* return c.gitleaksConfig, err with nothing assigned
Kept(branch, err) ==
    Outcome(branch, gitleaksConfig, err, gitleaksConfig, gitleaksConfigHash,
            localFile, FALSE)

\* updateLocalConfig(localPath, rawConfig) under outcome `write`: the file at
\* LocalPath afterwards
updateLocalConfig(raw, write) ==
    IF write = "ok"
      THEN raw
      ELSE IF write = "partial" THEN PartialFile ELSE localFile

\* A refresh branch that assigns ParseConfig's result to c.gitleaksConfig
\* before looking at the error
GitleaksFetchAssign(fetch, write) ==
    IF fetch.status # "200"
      THEN Kept("fetch", TRUE)
      ELSE LET parsed == ParseConfig(fetch.body)
           IN  IF parsed.err
                 THEN Outcome("fetch", parsed.cfg, TRUE, parsed.cfg,
                              gitleaksConfigHash, localFile, FALSE)
                 ELSE Outcome("fetch", parsed.cfg, write # "ok", parsed.cfg,
                              IF write = "ok" THEN Sha256(fetch.body)
                                              ELSE gitleaksConfigHash,
                              updateLocalConfig(fetch.body, write),
                              write \in {"ok", "partial"})

\* A refresh branch that writes the fetched body to LocalPath before parsing it
GitleaksFetchWriteFirst(fetch, write) ==
    IF fetch.status # "200"
      THEN Kept("fetch", TRUE)
      ELSE LET parsed == ParseConfig(fetch.body)
           IN  IF parsed.err \/ write # "ok"
                 THEN Outcome("fetch", gitleaksConfig, TRUE, gitleaksConfig,
                              gitleaksConfigHash,
                              updateLocalConfig(fetch.body, write),
                              write \in {"ok", "partial"})
                 ELSE Outcome("fetch", parsed.cfg, FALSE, parsed.cfg,
                              Sha256(fetch.body), fetch.body, TRUE)

\* if c.patternsConfig.Autofetch && modTimeExceeds { ... }: the refresh branch
GitleaksFetch(fetch, write) ==
    IF fetch.status # "200"
      THEN Kept("fetch", TRUE)
      ELSE LET parsed == ParseConfig(fetch.body)
           IN  IF parsed.err
                 THEN Kept("fetch", TRUE)
                 ELSE Outcome("fetch", parsed.cfg, write # "ok", parsed.cfg,
                              IF write = "ok" THEN Sha256(fetch.body)
                                              ELSE gitleaksConfigHash,
                              updateLocalConfig(fetch.body, write),
                              write \in {"ok", "partial"})

\* else if c.gitleaksConfig == nil { ... }: load from LocalPath
GitleaksRead ==
    IF configModTimeExceeds(expiredAfter)
      THEN Outcome("expired", Nil, TRUE, gitleaksConfig, gitleaksConfigHash,
                   localFile, FALSE)
      ELSE IF localFile = NoFile
             THEN Kept("read", TRUE)
             ELSE LET parsed == ParseConfig(localFile)
                  IN  IF parsed.err
                        THEN Kept("read", TRUE)
                        ELSE Outcome("read", parsed.cfg, FALSE, parsed.cfg,
                                     Sha256(localFile), localFile, FALSE)

\* A Gitleaks that looks at the age of the file before it serves from memory
GitleaksCallChecksExpiry(fetch, write) ==
    IF autofetch /\ configModTimeExceeds(refreshAfter)
      THEN GitleaksFetch(fetch, write)
      ELSE IF gitleaksConfig = Nil \/ configModTimeExceeds(expiredAfter)
             THEN GitleaksRead
             ELSE Kept("memory", FALSE)

\* Patterns.Gitleaks(ctx) from c.mutex.Lock() to the return. fetch, write: what
\* the server and the file system answer if they are asked.
GitleaksCall(fetch, write) ==
    IF autofetch /\ configModTimeExceeds(refreshAfter)
      THEN GitleaksFetch(fetch, write)
      ELSE IF gitleaksConfig = Nil
             THEN GitleaksRead
             ELSE Kept("memory", FALSE)

\* The call's effect on the cache and on LocalPath. ctxDone: ctx is done before
\* the request completes, which the HTTP client reports as a transport error.
Gitleaks(ctxDone, fetch, write) ==
    /\ ctxDone => fetch.status = "transport"
    /\ gitleaksConfig' = GitleaksCall(fetch, write).config
    /\ gitleaksConfigHash' = GitleaksCall(fetch, write).hash
    /\ localFile' = GitleaksCall(fetch, write).file
    /\ fileAge' = IF GitleaksCall(fetch, write).wrote THEN 0 ELSE fileAge
    /\ UNCHANGED <<autofetch, refreshAfter, expiredAfter>>

\* A caller of Gitleaks on its own, keeping what it asked and what it got
CallGitleaks(fetch, write) ==
    /\ Gitleaks(FALSE, fetch, write)
    /\ lastLoad' = [seq |-> 1 - lastLoad.seq, fetch |-> fetch, write |-> write,
                    ret |-> GitleaksCall(fetch, write)]

\* One second passes
Tick ==
    /\ fileAge < MaxAge
    /\ fileAge' = fileAge + 1
    /\ UNCHANGED <<autofetch, refreshAfter, expiredAfter, gitleaksConfig,
                   gitleaksConfigHash, localFile>>

\* The file at LocalPath is removed from outside the process
RemoveLocalFile ==
    /\ localFile # NoFile
    /\ localFile' = NoFile
    /\ UNCHANGED <<autofetch, refreshAfter, expiredAfter, gitleaksConfig,
                   gitleaksConfigHash, fileAge>>

\* ------------------------------------------- Gitleaks seen through c.mutex
NoOutcome == Outcome("none", Nil, FALSE, Nil, ZeroHash, NoFile, FALSE)

\* A caller calls s.patterns.Gitleaks(ctx) and reaches c.mutex.Lock()
GitleaksBegin(w) ==
    /\ gPc[w] = "idle"
    /\ gPc' = [gPc EXCEPT ![w] = "lock"]
    /\ gSaw' = [gSaw EXCEPT ![w] = FALSE]
    /\ UNCHANGED <<mutex, gRet, pvars>>

\* A Lock that does not wait for the holder
GitleaksLockFree(w) ==
    /\ gPc[w] = "lock"
    /\ mutex' = w
    /\ gPc' = [gPc EXCEPT ![w] =
                 IF autofetch /\ configModTimeExceeds(refreshAfter)
                   THEN "fetch" ELSE "local"]
    /\ UNCHANGED <<gSaw, gRet, pvars>>

\* c.mutex.Lock() returns; modTimeExceeds is computed and the branch chosen
\* (lines 129-136). In "fetch" the HTTP request of fetchConfig is in flight.
GitleaksLock(w) ==
    /\ gPc[w] = "lock"
    /\ mutex = "free"
    /\ mutex' = w
    /\ gPc' = [gPc EXCEPT ![w] =
                 IF autofetch /\ configModTimeExceeds(refreshAfter)
                   THEN "fetch" ELSE "local"]
    /\ UNCHANGED <<gSaw, gRet, pvars>>

\* What the call of w comes to once its branch is chosen
GitleaksBranch(w, fetch, write) ==
    IF gPc[w] = "fetch"
      THEN GitleaksFetch(fetch, write)
      ELSE IF gitleaksConfig = Nil
             THEN GitleaksRead
             ELSE Kept("memory", FALSE)

\* The rest of the call, lines 137-188, and the deferred c.mutex.Unlock()
GitleaksUnlock(w, fetch, write) ==
    /\ gPc[w] \in {"fetch", "local"}
    /\ gitleaksConfig' = GitleaksBranch(w, fetch, write).config
    /\ gitleaksConfigHash' = GitleaksBranch(w, fetch, write).hash
    /\ localFile' = GitleaksBranch(w, fetch, write).file
    /\ fileAge' = IF GitleaksBranch(w, fetch, write).wrote THEN 0 ELSE fileAge
    /\ gRet' = [gRet EXCEPT ![w] = GitleaksBranch(w, fetch, write)]
    /\ gSaw' = [v \in Receivers |->
                  gSaw[v] \/ (/\ v # w
                              /\ gPc[v] = "lock"
                              /\ GitleaksBranch(w, fetch, write).branch = "fetch"
                              /\ ~GitleaksBranch(w, fetch, write).err)]
    /\ gPc' = [gPc EXCEPT ![w] = "idle"]
    /\ mutex' = "free"
    /\ UNCHANGED <<autofetch, refreshAfter, expiredAfter, lastLoad>>

\* ------------------------------------------------------------ the scanner
\* Number of requests the client submits to the scanner.
MaxRequests == 2

Kinds == {"GitRepo", "Files", "Text", "URL", "JSONData", "ContainerImage"}

\* The requests a client can build: Opts.Local is read for GitRepo only; a Kind
\* outside Kinds can be built in code, not decoded
RequestShapes ==
    {[Kind |-> k, Local |-> FALSE] : k \in Kinds \cup {"Unknown"}}
      \cup {[Kind |-> "GitRepo", Local |-> TRUE]}

\* What a detector run can report
FindingLists == {<<>>, <<"finding">>}

\* Error codes of the scanner
noCode == 0
cloneErrorCode == 1
configErrorCode == 2
localScanNotAllowedCode == 3
scanErrorCode == 4
sourceErrorCode == 5
timeoutErrorCode == 6

\* No clone directory
NoDir == 0

\* The local path a request names as its Resource; the directories under
\* clones are named by the positive numbers
LocalPath(id) == 0 - id

\* The request reads a local path: a GitRepo request with Opts.Local, a Files
\* request
ReadsLocalPath(shape) ==
    \/ shape.Kind = "GitRepo" /\ shape.Local
    \/ shape.Kind = "Files"

\* The request of the message a worker's callback runs on
Request(w) == reqs[rMsg[w].id]

\* Scanner.Send(request): the whole of scanQueue.Send of a message with
\* Priority = request.Opts.Priority, from the loop condition to the push
ScannerSend(shape, p) ==
    /\ ~(maxSize > 0 /\ Size >= maxSize)
    /\ heap' = heap \cup {[id |-> nextId, Priority |-> p]}
    /\ nextId' = nextId + 1
    /\ reqs' = Append(reqs, [ID |-> nextId, Kind |-> shape.Kind,
                             Local |-> shape.Local, Priority |-> p])
    /\ responses' = Append(responses, <<>>)
    /\ localDirs' = IF ReadsLocalPath(shape)
                      THEN localDirs \cup {LocalPath(nextId)}
                      ELSE localDirs
    /\ UNCHANGED <<maxSize, pumpPc, pumpMsg, sPc, sMsg, spaceWaiters, rPc, rMsg,
                   delivered, allowLocal, scanTimeout, wDir, wDefer, dirs, nextDir>>

\* The forwarding goroutine of scanQueue pops a message and hands it to a
\* worker waiting in Recv, whose callback starts
ScanQueueRecv(w) ==
    /\ rPc[w] = "recv"
    /\ \E m \in HeapTop :
         /\ heap' = heap \ {m}
         /\ rMsg' = [rMsg EXCEPT ![w] = m]
    /\ rPc' = [rPc EXCEPT ![w] = "callback"]
    /\ UNCHANGED <<maxSize, nextId, pumpPc, pumpMsg, sPc, sMsg, spaceWaiters,
                   delivered, wvars>>

\* A Response that carries an identifier of its own as RequestID
RespondFreshID(w, priority, code, results, cut) ==
    responses' = [responses EXCEPT ![Request(w).ID] =
        Append(@, [Kind |-> "ScanResults", RequestID |-> Len(reqs) + Request(w).ID,
                   Priority |-> priority, Code |-> code, Results |-> results,
                   cut |-> cut])]

\* responseQueue.Send of a Response for the worker's request. cut: the phase
\* whose operation the deadline cut short ("none" when the deadline played no part)
Respond(w, priority, code, results, cut) ==
    responses' = [responses EXCEPT ![Request(w).ID] =
        Append(@, [Kind |-> "ScanResults", RequestID |-> Request(w).ID,
                   Priority |-> priority, Code |-> code, Results |-> results,
                   cut |-> cut])]

\* An error Response that keeps findings
respondWithErrorResults(w, code, cut) ==
    Respond(w, Request(w).Priority, code, <<"finding">>, cut)

\* An error Response sent with the zero priority
respondWithErrorUnranked(w, code, cut) ==
    Respond(w, 0, code, <<>>, cut)

\* respondWithError(request, err)
respondWithError(w, code, cut) ==
    Respond(w, Request(w).Priority, code, <<>>, cut)

\* The callback returns and the worker goes back to the channel
Return(w) ==
    /\ rPc' = [rPc EXCEPT ![w] = "recv"]
    /\ rMsg' = [rMsg EXCEPT ![w] = NoMsg]
    /\ wDir' = [wDir EXCEPT ![w] = NoDir]
    /\ wDefer' = [wDefer EXCEPT ![w] = FALSE]

\* listen, lines 644-675: the context, s.patterns.Gitleaks(ctx), the detector.
\* late: the deadline passes while the patterns are fetched.
ListenLoad(w, fetch, write, late) ==
    /\ rPc[w] = "callback"
    /\ late => scanTimeout > 0 /\ autofetch /\ configModTimeExceeds(refreshAfter)
    /\ Gitleaks(late, fetch, write)
    /\ IF GitleaksCall(fetch, write).err
         THEN /\ respondWithError(w, configErrorCode,
                                  IF late THEN "load" ELSE "none")
              /\ Return(w)
         ELSE /\ rPc' = [rPc EXCEPT ![w] = "route"]
              /\ UNCHANGED <<rMsg, wDir, wDefer, responses>>
    /\ UNCHANGED <<maxSize, heap, nextId, pumpPc, pumpMsg, sPc, sMsg,
                   spaceWaiters, delivered, lastLoad, allowLocal, scanTimeout,
                   reqs, dirs, localDirs, nextDir>>

\* What running `git clone` under ctx can come to:
\*   ok       exit 0 before the deadline
\*   failed   no clone is made: the remote ref is missing, or git exits
\*            non-zero after removing what it created
\*   expired  ctx is done before git starts: nothing is created
\*   killed   the deadline passes while git runs; the process is killed and
\*            what it had written stays
\*   late     git exits 0 and ctx.Err() is DeadlineExceeded right after
CloneOutcomes == {"ok", "failed", "expired", "killed", "late"}

\* An id.ID() that returns once more the name of the call before
IDRepeats == IF nextDir > 1 THEN nextDir - 1 ELSE nextDir

\* id.ID() without parameters: a name that no earlier call returned
ID == nextDir

\* cloneGitRepo(ctx, cloneURL, opts): its effect on the clones directory, the
\* new directory being clonesDir/id.ID()
cloneGitRepo(w, outcome) ==
    /\ outcome \in {"expired", "killed", "late"} => scanTimeout > 0
    /\ nextDir' = nextDir + 1
    /\ dirs' = IF outcome \in {"failed", "expired"}
                 THEN dirs
                 ELSE dirs \cup {[id |-> ID, req |-> Request(w).ID]}

\* A local-scan denial without its return: the callback goes on to the scan
ListenDeniedNoReturn(w) ==
    /\ respondWithError(w, localScanNotAllowedCode, "none")
    /\ rPc' = [rPc EXCEPT ![w] = "scan"]
    /\ UNCHANGED <<rMsg, wDir, wDefer>>

\* A local-scan denial reported as a source error
ListenDeniedAsSourceError(w) ==
    /\ respondWithError(w, sourceErrorCode, "none")
    /\ Return(w)

\* A local-scan denial that returns without a Response
ListenDeniedSilent(w) ==
    /\ UNCHANGED responses
    /\ Return(w)

\* A local-scan denial: lines 702-711 and 759-768
ListenDenied(w) ==
    /\ respondWithError(w, localScanNotAllowedCode, "none")
    /\ Return(w)

\* `case proto.GitRepoRequestKind` up to the scan call, lines 678-738. abs:
\* absGitDir succeeds.
ListenGitRepo(w, outcome, abs) ==
    /\ IF ~Request(w).Local
         THEN cloneGitRepo(w, outcome)
         ELSE outcome = "ok" /\ UNCHANGED <<dirs, nextDir>>
    /\ IF ~Request(w).Local /\ outcome # "ok"
         THEN /\ abs
              /\ respondWithError(w, cloneErrorCode,
                                  IF outcome = "failed" THEN "none" ELSE "clone")
              /\ Return(w)
         ELSE IF Request(w).Local /\ ~allowLocal
                THEN abs /\ ListenDenied(w)
                ELSE IF ~abs
                       THEN /\ respondWithError(w, sourceErrorCode, "none")
                            /\ Return(w)
                       ELSE /\ rPc' = [rPc EXCEPT ![w] = "scan"]
                            /\ wDir' = [wDir EXCEPT ![w] =
                                 IF Request(w).Local
                                   THEN LocalPath(Request(w).ID)
                                   ELSE ID]
                            /\ wDefer' = [wDefer EXCEPT ![w] = ~Request(w).Local]
                            /\ UNCHANGED <<rMsg, responses>>

\* listen, `switch request.Kind` up to the scan call, lines 677-779
ListenRoute(w, outcome, abs) ==
    /\ rPc[w] = "route"
    /\ IF Request(w).Kind = "GitRepo"
         THEN ListenGitRepo(w, outcome, abs)
         ELSE /\ outcome = "ok"
              /\ abs
              /\ UNCHANGED <<dirs, nextDir>>
              /\ IF Request(w).Kind = "Files" /\ ~allowLocal
                   THEN ListenDenied(w)
                   ELSE /\ rPc' = [rPc EXCEPT ![w] = "scan"]
                        /\ UNCHANGED <<rMsg, wDir, wDefer, responses>>
    /\ UNCHANGED <<maxSize, heap, nextId, pumpPc, pumpMsg, sPc, sMsg,
                   spaceWaiters, delivered, pvars, allowLocal, scanTimeout, reqs,
                   localDirs>>

\* A removal of sourcePath and gitDir that runs for every GitRepo request
RunDeferredAlways(w) ==
    /\ dirs' = {d \in dirs : d.id # wDir[w]}
    /\ localDirs' = localDirs \ {wDir[w]}

\* The deferred func of lines 726-737: os.RemoveAll of sourcePath and gitDir
RunDeferred(w) ==
    /\ dirs' = IF wDefer[w] THEN {d \in dirs : d.id # wDir[w]} ELSE dirs
    /\ localDirs' = IF wDefer[w] THEN localDirs \ {wDir[w]} ELSE localDirs

\* What a gitleaks.Scan* call under ctx can come to: no error, an error of the
\* backend, or an error with ctx done by then
ScanOutcomes == {"ok", "error", "timeout"}

\* A listen that answers a request of an unexpected kind with an error
ListenScanRejectsUnknown(w, findings, outcome) ==
    /\ rPc[w] = "scan"
    /\ Request(w).Kind = "Unknown" => findings = <<>> /\ outcome = "ok"
    /\ outcome = "timeout" => scanTimeout > 0 /\ findings = <<>>
    /\ IF outcome = "timeout"
         THEN respondWithError(w, timeoutErrorCode, "scan")
         ELSE IF Request(w).Kind = "Unknown"
                THEN respondWithError(w, sourceErrorCode, "none")
                ELSE Respond(w, rMsg[w].Priority,
                             IF outcome = "error" THEN scanErrorCode ELSE noCode,
                             findings, "none")
    /\ Return(w)
    /\ RunDeferred(w)
    /\ UNCHANGED <<maxSize, heap, nextId, pumpPc, pumpMsg, sPc, sMsg,
                   spaceWaiters, delivered, pvars, allowLocal, scanTimeout, reqs,
                   nextDir>>

\* listen from the scan call to the end, lines 740-817. findings, outcome: what
\* the gitleaks.Scan* call returns.
ListenScan(w, findings, outcome) ==
    /\ rPc[w] = "scan"
    /\ Request(w).Kind = "Unknown" => findings = <<>> /\ outcome = "ok"
    /\ outcome = "timeout" => scanTimeout > 0 /\ findings = <<>>
    /\ IF outcome = "timeout"
         THEN respondWithError(w, timeoutErrorCode, "scan")
         ELSE Respond(w, rMsg[w].Priority,
                      IF outcome = "error" THEN scanErrorCode ELSE noCode,
                      findings, "none")
    /\ Return(w)
    /\ RunDeferred(w)
    /\ UNCHANGED <<maxSize, heap, nextId, pumpPc, pumpMsg, sPc, sMsg,
                   spaceWaiters, delivered, pvars, allowLocal, scanTimeout, reqs,
                   nextDir>>

\* ------------------------------------------------- the git subprocesses
\* The git commands run for a cloned request, in the order of the code:
\* remoteGitRefExists (when Opts.Branch is set), the clone, the two commands of
\* checkoutGitSourceConfigFiles, absGitDir
GitCommands == <<"ls-remote", "clone", "worktree add", "checkout", "rev-parse">>

\* exec.CommandContext(ctx, ...) is used for the clone only; the other four
\* commands are built with exec.Command
UnderContext(cmd) == cmd = "clone"

\* `git clone` runs a transport helper as a child process, which inherits the
\* pipe CombinedOutput reads from
HasChild(cmd) == cmd = "clone"

\* The processes of a command that are alive
ProcsOf(cmd) == {p \in procs : p.cmd = cmd}

\* cmd.Run / cmd.Output / cmd.CombinedOutput starts the process of the command
\* the worker is at. hung: the process never ends by itself (a stalled remote,
\* a lock it waits for); childHung: the same for the clone's child. A command
\* under a context that is already done is not started and fails at once.
GitStart(hung, childHung) ==
    /\ gitPc \in {GitCommands[i] : i \in 1 .. Len(GitCommands)}
    /\ ~gitWait
    /\ ~HasChild(gitPc) => ~childHung
    /\ IF UnderContext(gitPc) /\ gitCtxDone
         THEN /\ ~hung /\ ~childHung
              /\ gitPc' = "done"
              /\ gitCode' = cloneErrorCode
              /\ UNCHANGED <<gitWait, gitExit, procs>>
         ELSE /\ gitWait' = TRUE
              /\ gitExit' = "none"
              /\ procs' = procs
                   \cup {[cmd |-> gitPc, role |-> "main", hung |-> hung]}
                   \cup (IF HasChild(gitPc)
                           THEN {[cmd |-> gitPc, role |-> "child", hung |-> childHung]}
                           ELSE {})
              /\ UNCHANGED <<gitPc, gitCode>>
    /\ UNCHANGED gitCtxDone

\* A process ends by itself; git waits for its child before it exits
ProcessExit(p, status) ==
    /\ p \in procs
    /\ ~p.hung
    /\ p.role = "main" => ProcsOf(p.cmd) = {p}
    /\ procs' = procs \ {p}
    /\ gitExit' = IF p.role = "main" THEN status ELSE gitExit
    /\ UNCHANGED <<gitPc, gitWait, gitCtxDone, gitCode>>

\* os/exec kills the process of a command started under a context once the
\* context is done: Process.Kill, a SIGKILL to that one process
ContextKill(p) ==
    /\ gitCtxDone
    /\ p \in procs
    /\ UnderContext(p.cmd)
    /\ p.role = "main"
    /\ procs' = procs \ {p}
    /\ gitExit' = "killed"
    /\ UNCHANGED <<gitPc, gitWait, gitCtxDone, gitCode>>

\* The call the worker waits in returns: the process has ended, and for
\* CombinedOutput every holder of the output pipe has closed it. The worker
\* goes on as cloneGitRepo and listen say.
GitReturn ==
    /\ gitWait
    /\ ProcsOf(gitPc) = {}
    /\ gitWait' = FALSE
    /\ LET failed == gitExit # "ok"
           to(pc) == gitPc' = pc /\ UNCHANGED gitCode
           fail(code) == gitPc' = "done" /\ gitCode' = code
       IN  CASE gitPc = "ls-remote" ->
                  IF failed THEN fail(cloneErrorCode) ELSE to("clone")
             [] gitPc = "clone" ->
                  IF failed \/ gitCtxDone THEN fail(cloneErrorCode) ELSE to("worktree add")
             [] gitPc = "worktree add" ->
                  IF failed THEN to("rev-parse") ELSE to("checkout")
             [] gitPc = "checkout" -> to("rev-parse")
             [] gitPc = "rev-parse" ->
                  IF failed THEN fail(sourceErrorCode) ELSE to("scan")
    /\ UNCHANGED <<gitExit, procs, gitCtxDone>>

\* gitleaks.ScanGit under ctx and the Response that follows it
GitScan(outcome) ==
    /\ gitPc = "scan"
    /\ outcome = "timeout" => gitCtxDone
    /\ gitPc' = "done"
    /\ gitCode' = CASE outcome = "ok" -> noCode
                    [] outcome = "error" -> scanErrorCode
                    [] outcome = "timeout" -> timeoutErrorCode
    /\ UNCHANGED <<gitWait, gitExit, procs, gitCtxDone>>

\* The deadline of context.WithTimeout(ctx, s.scanTimeout) elapses
DeadlineElapses ==
    /\ scanTimeout > 0
    /\ ~gitCtxDone
    /\ gitPc # "done"
    /\ gitCtxDone' = TRUE
    /\ UNCHANGED <<gitPc, gitWait, gitExit, procs, gitCode>>

\* ------------------------------------------------- the depth of history
\* Largest Opts.Depth and maxScanDepth tried
MaxDepth == 7

\* cloneGitRepo, lines 986-990: `--depth Opts.Depth+1` when Opts.Depth > 0
CloneDepth ==
    /\ depthPc = "clone"
    /\ cloneDepthArg' = IF optsDepth > 0 THEN optsDepth + 1 ELSE 0
    /\ depthPc' = "scan"
    /\ UNCHANGED <<optsDepth, maxScanDepth, scanDepthOpt>>

\* listen, lines 740-747: GitScanOpts{Depth: request.Opts.Depth}
ScanDepth ==
    /\ depthPc = "scan"
    /\ scanDepthOpt' = optsDepth
    /\ depthPc' = "done"
    /\ UNCHANGED <<optsDepth, maxScanDepth, cloneDepthArg>>

\* ------------------------------------------------- the listen command
\* Number of lines on stdin
MaxLines == 2

\* What a line can hold: text that is not JSON, a JSON object with a field of
\* the wrong type, or a JSON object with string fields "kind" and "resource"
\* (an absent field decodes to the empty string)
LineShapes ==
    {[json |-> j, kind |-> "", resource |-> ""] : j \in {"malformed", "wrongtype"}}
      \cup {[json |-> "object", kind |-> k, resource |-> r] :
              k \in {"Text", "GitRepo", "Mystery", ""}, r \in {"", "http://h"}}

\* requestKindNameMap
requestKindNameMap == Kinds

\* A Request that was not filled in
ZeroRequest == [Kind |-> "", Resource |-> ""]

\* Request.UnmarshalJSON(data): json.Unmarshal into tmp, then the kind lookup
UnmarshalJSON(data) ==
    IF data.json # "object"
      THEN [err |-> TRUE, request |-> ZeroRequest]
      ELSE IF data.kind \in requestKindNameMap
             THEN [err |-> FALSE,
                   request |-> [Kind |-> data.kind, Resource |-> data.resource]]
             ELSE [err |-> TRUE, request |-> ZeroRequest]

\* A loop body that leaves the loop on a line it cannot decode
ListenLineStops ==
    /\ listenPc = "loop"
    /\ nextLine <= Len(lines)
    /\ LET decoded == UnmarshalJSON(lines[nextLine])
       IN  IF decoded.err
             THEN /\ listenPc' = "wait"
                  /\ UNCHANGED <<accepted, sent>>
             ELSE /\ accepted' = Append(accepted, decoded.request)
                  /\ sent' = IF decoded.request.Resource = ""
                               THEN sent ELSE sent \cup {nextLine}
                  /\ UNCHANGED listenPc
    /\ nextLine' = nextLine + 1
    /\ UNCHANGED <<lines, answered>>

\* runListen, one turn of the loop on a line: lines 282-311
ListenLine ==
    /\ listenPc = "loop"
    /\ nextLine <= Len(lines)
    /\ LET decoded == UnmarshalJSON(lines[nextLine])
       IN  IF decoded.err
             THEN UNCHANGED <<accepted, sent>>
             ELSE /\ accepted' = Append(accepted, decoded.request)
                  /\ sent' = IF decoded.request.Resource = ""
                               THEN sent ELSE sent \cup {nextLine}
    /\ nextLine' = nextLine + 1
    /\ UNCHANGED <<lines, listenPc, answered>>

\* readLine returns io.EOF: break
ListenEOF ==
    /\ listenPc = "loop"
    /\ nextLine > Len(lines)
    /\ listenPc' = "wait"
    /\ UNCHANGED <<lines, nextLine, accepted, sent, answered>>

\* The scanner answers a request it was sent and the Recv callback prints the
\* Response: lines 274-277
ListenPrint(i) ==
    /\ i \in sent \ answered
    /\ answered' = answered \cup {i}
    /\ UNCHANGED <<lines, nextLine, listenPc, accepted, sent>>

\* wg.Wait() returns when every request sent was answered
ListenReturn ==
    /\ listenPc = "wait"
    /\ sent = answered
    /\ listenPc' = "exit"
    /\ UNCHANGED <<lines, nextLine, accepted, sent, answered>>

\* ------------------------------------------------- findings to results
\* Longest finding.File tried, in tokens
MaxPathLen == 3

\* finding.File is a sequence of tokens: a name, a name ending in "layers",
\* and the separators "/" and "!"
PathTokens == {"f", "layers", "/", "!"}
FindingFiles == UNION {[1 .. n -> PathTokens] : n \in 0 .. MaxPathLen}

GenericResultKind == "Generic"
ContainerLayerResultKind == "ContainerLayer"
ContainerMetdataResultKind == "ContainerMetdata"
GitCommitResultKind == "GitCommit"

\* The positions of sep in s
SepAt(s, sep) == {i \in 1 .. Len(s) : s[i] = sep}

\* strings.Split(s, sep): the pieces of s between the separators, <<s>> when
\* s holds no separator
RECURSIVE Split(_, _)
Split(s, sep) ==
    IF SepAt(s, sep) = {}
      THEN <<s>>
      ELSE LET i == CHOOSE j \in SepAt(s, sep) : \A k \in SepAt(s, sep) : j <= k
           IN  <<SubSeq(s, 1, i - 1)>> \o Split(SubSeq(s, i + 1, Len(s)), sep)

\* strings.Contains(s, "layers/")
ContainsLayers(s) ==
    \E i \in 1 .. Len(s) - 1 : s[i] = "layers" /\ s[i + 1] = "/"

\* findingToResult(request, finding), lines 835-905: the switch on
\* request.Kind, the assignments in the order of the code
findingToResult(kind, file) ==
    LET result == [Kind |-> "", Path |-> file, manifest |-> <<>>]
    IN  CASE kind = "GitRepo" -> [result EXCEPT !.Kind = GitCommitResultKind]
          [] kind = "ContainerImage" ->
               LET parts == Split(result.Path, "/")
                   loc == Split(result.Path, "!")
                   layer == ContainsLayers(result.Path) /\ Len(loc) > 1
                   r1 == IF layer
                           THEN [result EXCEPT !.Path = loc[2],
                                               !.Kind = ContainerLayerResultKind]
                           ELSE result
               IN  IF Len(parts) > 1
                     THEN [r1 EXCEPT !.manifest = parts[2],
                                     !.Kind = ContainerMetdataResultKind]
                     ELSE result
          [] kind = "URL" -> [result EXCEPT !.Kind = GenericResultKind]
          [] OTHER -> [result EXCEPT !.Kind = GenericResultKind]

\* listen, line 804: results[i] = findingToResult(request, &finding)
FindingToResult ==
    /\ frPc = "call"
    /\ frResult' = findingToResult(frRequestKind, frFile)
    /\ frPc' = "done"
    /\ UNCHANGED <<frRequestKind, frFile>>

\* ------------------------------------------------- container image layers
\* Most layers of an image
MaxLayers == 2

\* Layer digests, in hex
Digests == {"aa", "bb"}

\* Dates: 0 stands for an absent one (Opts.Since == "", history.Created == nil)
NoDate == 0
Dates == {1, 2}

\* A layer of the manifest with the Created of its history entry
LayerInfos ==
    [EmptyLayer : BOOLEAN, Digest : Digests, Created : {NoDate} \cup Dates]

\* Opts of a ContainerImage request
ImageOpts ==
    [Depth : {0, 1}, Since : {NoDate, 2}, Exclusions : SUBSET {"aa"}]

\* listen, lines 771-776: the ContainerImageScanOpts literal, with Arch, Depth
\* and Since of the request; Exclusions keeps its zero value
ContainerImageScanOpts(opts) ==
    [Depth |-> opts.Depth, Since |-> opts.Since, Exclusions |-> {}]

\* ScanContainerImage(ctx, detector, rawImageRef, opts): the source it builds
ScanContainerImage ==
    /\ imgPc = "listen"
    /\ LET opts == ContainerImageScanOpts(imgOpts)
       IN  imgSource' = [Depth |-> opts.Depth, Since |-> opts.Since,
                         Exclusions |-> opts.Exclusions]
    /\ imgPc' = "layers"
    /\ UNCHANGED <<imgOpts, imgLayers, imgHistoriesMatch, imgIndex,
                   currentDepth, imgScanned>>

\* checkSince := s.Since != nil && len(layerInfos) == len(configHistories)
checkSince == imgSource.Since # NoDate /\ imgHistoriesMatch

\* ContainerImage.Fragments, one turn of the loop over layerInfos
FragmentsLayer ==
    /\ imgPc = "layers"
    /\ imgIndex <= Len(imgLayers)
    /\ LET layerInfo == imgLayers[imgIndex]
       IN  IF layerInfo.EmptyLayer
             THEN /\ imgIndex' = imgIndex + 1
                  /\ UNCHANGED <<imgPc, currentDepth, imgScanned>>
             ELSE /\ currentDepth' = currentDepth + 1
                  /\ IF imgSource.Depth > 0 /\ imgSource.Depth < currentDepth'
                       THEN /\ imgPc' = "done"
                            /\ UNCHANGED <<imgIndex, imgScanned>>
                       ELSE /\ imgIndex' = imgIndex + 1
                            /\ imgPc' = imgPc
                            /\ imgScanned' =
                                 IF \/ /\ checkSince
                                       /\ layerInfo.Created # NoDate
                                       /\ layerInfo.Created < imgSource.Since
                                    \/ layerInfo.Digest \in imgSource.Exclusions
                                   THEN imgScanned
                                   ELSE imgScanned \cup {imgIndex}
    /\ UNCHANGED <<imgOpts, imgSource, imgLayers, imgHistoriesMatch>>

\* ContainerImage.Fragments after the last layer: return nil
FragmentsReturn ==
    /\ imgPc = "layers"
    /\ imgIndex > Len(imgLayers)
    /\ imgPc' = "done"
    /\ UNCHANGED <<imgOpts, imgSource, imgLayers, imgHistoriesMatch, imgIndex,
                   currentDepth, imgScanned>>

\* ------------------------------------------------- parsing a pattern file
\* Most rules and most allowlists of a pattern file
MaxRules == 1
MaxAllowlists == 2

\* Pattern files by what toml.Decode, ViperConfig.Translate and validate see
\* of them; a text that does not decode has nothing to translate
RawConfigs ==
    {NotTomlBody}
      \cup {[text |-> "toml", decodes |-> TRUE, translates |-> t, rules |-> r,
             allowlists |-> a] :
              t \in BOOLEAN, r \in 0 .. MaxRules,
              a \in UNION {[1 .. n -> BOOLEAN] : n \in 0 .. MaxAllowlists}}

\* ParseConfig with its deferred recover, lines 14-18: a panic of
\* vc.Translate() ends the call with the error set and cfg not yet assigned
ParseConfigRecover(raw, panics) ==
    IF raw.decodes /\ panics
      THEN [cfg |-> Nil, err |-> TRUE]
      ELSE ParseConfig(raw)

\* A call of gitleaks.ParseConfig(rawConfig)
ParseConfigCall ==
    /\ parsePc = "call"
    /\ parseResult' = ParseConfigRecover(parseRaw, parsePanics)
    /\ parsePc' = "done"
    /\ UNCHANGED <<parseRaw, parsePanics>>

\* ------------------------------------------------- the per-source overlay
\* Room behind the cached Allowlists: cap minus len is at most this
MaxSpare == 1

\* The two requests followed through the overlay
OvRequests == {"A", "B"}

\* A source path that is no directory: no overlay file is looked at
NoOverlay == [config |-> "nodir", body |-> NoFile, baseline |-> "none",
              ignore |-> "none"]
\* A detector without baseline and without gitleaksignore entries
NoExtras == [baseline |-> FALSE, ignore |-> FALSE]

\* What loadSourceConfig can find under a source path that is a directory:
\* .gitleaks.toml unreadable, empty, or with a body; .gitleaksbaseline absent,
\* good, or refused by AddBaseline; .gitleaksignore absent or present
Overlays ==
    {NoOverlay}
      \cup {[config |-> c, body |-> NoFile, baseline |-> bl, ignore |-> ig] :
              c \in {"unreadable", "empty"}, bl \in {"none", "ok", "bad"},
              ig \in {"none", "ok"}}
      \cup {[config |-> "ok", body |-> b, baseline |-> bl, ignore |-> ig] :
              b \in Bodies, bl \in {"none", "ok", "bad"}, ig \in {"none", "ok"}}

\* An allowlist with the file it came from: the pattern file ("cache") or the
\* overlay of a request; an array slot that no slice covers yet
Allowlist(owner, allows) == [owner |-> owner, allows |-> allows]
FreeSlot == Allowlist("none", FALSE)

\* The allowlists of a parsed config as values of one owner
AllowlistsOf(owner, cfg) ==
    [i \in 1 .. Len(cfg.Allowlists) |-> Allowlist(owner, cfg.Allowlists[i])]

\* The pattern file the cache holds
CachedConfig == ParseConfig(GoodBody).cfg

\* detector.Config.Allowlists of request r: a slice of the cached array or of
\* an array of its own
Allowlists(r) ==
    IF detShared[r] THEN SubSeq(cfgArray, 1, detLen[r]) ELSE detArray[r]

\* detect.NewDetector(*cfg), lines 654-673: the Config is copied by value, so
\* its Allowlists slice refers to the array of the cached config
NewDetector(r) ==
    /\ ovPc[r] = "new"
    /\ detShared' = [detShared EXCEPT ![r] = TRUE]
    /\ detLen' = [detLen EXCEPT ![r] = cfgLen]
    /\ detRules' = [detRules EXCEPT ![r] = CachedConfig.Rules]
    /\ ovPc' = [ovPc EXCEPT ![r] =
                  IF ovKind[r] \in {"GitRepo", "Files"} THEN "load" ELSE "scan"]
    /\ UNCHANGED <<ovKind, ovFiles, cfgArray, cfgLen, detArray, detExtras,
                   scannedWith>>

\* append(detector.Config.Allowlists, more...), line 934: in place when the
\* array has room, into a new array otherwise
AppendAllowlists(r, more) ==
    IF Len(more) = 0
      THEN UNCHANGED <<cfgArray, detShared, detArray, detLen>>
      ELSE IF detShared[r] /\ detLen[r] + Len(more) <= Len(cfgArray)
             THEN /\ cfgArray' =
                       [i \in 1 .. Len(cfgArray) |->
                          IF i > detLen[r] /\ i <= detLen[r] + Len(more)
                            THEN more[i - detLen[r]]
                            ELSE cfgArray[i]]
                  /\ detLen' = [detLen EXCEPT ![r] = detLen[r] + Len(more)]
                  /\ UNCHANGED <<detShared, detArray>>
             ELSE /\ detArray' = [detArray EXCEPT ![r] = Allowlists(r) \o more]
                  /\ detShared' = [detShared EXCEPT ![r] = FALSE]
                  /\ detLen' = [detLen EXCEPT ![r] = detLen[r] + Len(more)]
                  /\ UNCHANGED cfgArray

\* A loadSourceConfig that also takes over the rules of the overlay file
loadSourceConfigMergesRules(r) ==
    /\ ovPc[r] = "load"
    /\ LET f == ovFiles[r]
           parsed == ParseConfig(f.body)
       IN  /\ IF f.config = "ok" /\ ~parsed.err
                THEN /\ AppendAllowlists(r, AllowlistsOf(r, parsed.cfg))
                     /\ detRules' = [detRules EXCEPT ![r] = @ + parsed.cfg.Rules]
                ELSE UNCHANGED <<cfgArray, detShared, detArray, detLen, detRules>>
           /\ detExtras' = [detExtras EXCEPT ![r] =
                 [baseline |-> f.baseline = "ok", ignore |-> f.ignore = "ok"]]
    /\ ovPc' = [ovPc EXCEPT ![r] = "scan"]
    /\ UNCHANGED <<ovKind, ovFiles, cfgLen, scannedWith>>

\* loadSourceConfig(detector, sourcePath), lines 921-955
loadSourceConfig(r) ==
    /\ ovPc[r] = "load"
    /\ LET f == ovFiles[r]
           parsed == ParseConfig(f.body)
       IN  /\ IF f.config = "ok" /\ ~parsed.err
                THEN AppendAllowlists(r, AllowlistsOf(r, parsed.cfg))
                ELSE UNCHANGED <<cfgArray, detShared, detArray, detLen>>
           /\ detExtras' = [detExtras EXCEPT ![r] =
                 [baseline |-> f.baseline = "ok", ignore |-> f.ignore = "ok"]]
    /\ ovPc' = [ovPc EXCEPT ![r] = "scan"]
    /\ UNCHANGED <<ovKind, ovFiles, cfgLen, detRules, scannedWith>>

\* gitleaks.ScanGit / ScanFiles / ... with the detector of the request
DetectorScan(r) ==
    /\ ovPc[r] = "scan"
    /\ scannedWith' = [scannedWith EXCEPT ![r] = Allowlists(r)]
    /\ ovPc' = [ovPc EXCEPT ![r] = "done"]
    /\ UNCHANGED <<ovKind, ovFiles, cfgArray, cfgLen, detShared, detArray,
                   detLen, detRules, detExtras>>

\* ------------------------------------------------- local paths
\* What request.Resource can name: a remote URL, a path that exists on this
\* machine, a path that does not
Resources == {"url", "path", "nopath"}

\* fs.PathExists(requestResource)
PathExists(resource) == resource = "path"

\* scanCommandToRequest, lines 196-199: a GitRepo request whose resource is a
\* path that exists gets Opts.Local set. A request decoded by the listen
\* command keeps the Opts.Local of its line.
BuildRequest ==
    /\ lpPc = "build"
    /\ lpRequest' =
         IF lpEntry = "scan" /\ lpRequest.Kind = "GitRepo" /\ ~lpRequest.Local
           THEN [lpRequest EXCEPT !.Local = PathExists(lpRequest.Resource)]
           ELSE lpRequest
    /\ lpPc' = "route"
    /\ UNCHANGED <<lpEntry, lpAllowLocal, lpCloneFrom, lpScanned, lpCode>>

\* listen, the switch on request.Kind up to the scan call, lines 677-770, seen
\* from the resource: a GitRepo request without Opts.Local is cloned from
\* request.Resource whatever it names (680-700); s.allowLocal is looked at for
\* a GitRepo request with Opts.Local (702) and for a Files request (759).
\* cloned: git clone exits 0.
LocalRoute(cloned) ==
    /\ lpPc = "route"
    /\ lpRequest.Resource = "nopath" => ~cloned
    /\ IF lpRequest.Kind = "GitRepo" /\ ~lpRequest.Local
         THEN /\ lpCloneFrom' = lpRequest.Resource
              /\ lpCode' = IF cloned THEN noCode ELSE cloneErrorCode
              /\ lpPc' = IF cloned THEN "scan" ELSE "done"
         ELSE /\ cloned
              /\ UNCHANGED lpCloneFrom
              /\ IF ~lpAllowLocal
                      /\ (lpRequest.Kind = "Files" \/ lpRequest.Kind = "GitRepo")
                   THEN /\ lpCode' = localScanNotAllowedCode
                        /\ lpPc' = "done"
                   ELSE /\ lpPc' = "scan"
                        /\ UNCHANGED lpCode
    /\ UNCHANGED <<lpEntry, lpAllowLocal, lpRequest, lpScanned>>

\* The gitleaks.Scan* call of the request's kind, lines 740-770: ScanGit on
\* the clone or on request.Resource, ScanFiles on request.Resource, ScanReader
\* on the text of the request
LocalScan ==
    /\ lpPc = "scan"
    /\ lpScanned' =
         IF lpRequest.Kind = "Text"
           THEN "inline"
           ELSE IF lpRequest.Kind = "GitRepo" /\ ~lpRequest.Local
                     /\ lpCloneFrom = "url"
                  THEN "remote"
                  ELSE "local"
    /\ lpPc' = "done"
    /\ UNCHANGED <<lpEntry, lpAllowLocal, lpRequest, lpCloneFrom, lpCode>>

\* ----------------------------------------------------------- specifications
\* Steps of the goroutines already inside the queue's code
QueueInner ==
    \/ \E s \in Senders : SendCheck(s)
    \/ \E s \in Senders : SendWait(s)
    \/ \E s \in Senders : SendPush(s)
    \/ \E s \in Senders : SendSignal(s)
    \/ PumpCheck
    \/ PumpWait
    \/ PumpPop
    \/ \E r \in Receivers : PumpHandoff(r)
    \/ PumpNotify
    \/ PumpSignal

QueueStep ==
    \/ QueueInner
    \/ \E r \in Receivers : RecvDone(r)

\* A PriorityQueue on its own: NewPriorityQueue(queueCapacity, maxSize) has
\* started the forwarding goroutine; clients send, receivers are started later.
InitQueue ==
    /\ maxSize \in MaxSizes
    /\ heap = {}
    /\ nextId = 1
    /\ pumpPc = "check"
    /\ pumpMsg = NoMsg
    /\ sPc = [s \in Senders |-> "idle"]
    /\ sMsg = [s \in Senders |-> NoMsg]
    /\ spaceWaiters = <<>>
    /\ rPc = [r \in Receivers |-> "off"]
    /\ rMsg = [r \in Receivers |-> NoMsg]
    /\ delivered = {}
    /\ autofetch = FALSE
    /\ refreshAfter = 0
    /\ expiredAfter = 0
    /\ gitleaksConfig = Nil
    /\ gitleaksConfigHash = ZeroHash
    /\ localFile = NoFile
    /\ fileAge = 0
    /\ lastLoad = [seq |-> 0, fetch |-> NoFetch, write |-> "ok",
                   ret |-> Outcome("none", Nil, FALSE, Nil, ZeroHash, NoFile, FALSE)]
    /\ allowLocal = FALSE
    /\ scanTimeout = 0
    /\ reqs = <<>>
    /\ wDir = [w \in Receivers |-> NoDir]
    /\ wDefer = [w \in Receivers |-> FALSE]
    /\ dirs = {}
    /\ localDirs = {}
    /\ nextDir = 1
    /\ responses = <<>>
    /\ mutex = "free"
    /\ gPc = [w \in Receivers |-> "idle"]
    /\ gSaw = [w \in Receivers |-> FALSE]
    /\ gRet = [w \in Receivers |-> NoOutcome]
    /\ gitPc = "done"
    /\ gitWait = FALSE
    /\ gitExit = "none"
    /\ procs = {}
    /\ gitCtxDone = FALSE
    /\ gitCode = noCode
    /\ optsDepth = 0
    /\ maxScanDepth = 0
    /\ depthPc = "done"
    /\ cloneDepthArg = 0
    /\ scanDepthOpt = 0
    /\ lines = <<>>
    /\ nextLine = 1
    /\ listenPc = "exit"
    /\ accepted = <<>>
    /\ sent = {}
    /\ answered = {}
    /\ frRequestKind = ""
    /\ frFile = <<>>
    /\ frPc = "done"
    /\ frResult = [Kind |-> "", Path |-> <<>>, manifest |-> <<>>]
    /\ imgOpts = [Depth |-> 0, Since |-> 0, Exclusions |-> {}]
    /\ imgSource = [Depth |-> 0, Since |-> 0, Exclusions |-> {}]
    /\ imgLayers = <<>>
    /\ imgHistoriesMatch = TRUE
    /\ imgPc = "done"
    /\ imgIndex = 1
    /\ currentDepth = 0
    /\ imgScanned = {}
    /\ parseRaw = NoBody
    /\ parsePanics = FALSE
    /\ parsePc = "done"
    /\ parseResult = [cfg |-> Nil, err |-> FALSE]
    /\ ovKind = [r \in OvRequests |-> "Text"]
    /\ ovFiles = [r \in OvRequests |-> NoOverlay]
    /\ cfgArray = <<>>
    /\ cfgLen = 0
    /\ detShared = [r \in OvRequests |-> TRUE]
    /\ detArray = [r \in OvRequests |-> <<>>]
    /\ detLen = [r \in OvRequests |-> 0]
    /\ detRules = [r \in OvRequests |-> 0]
    /\ detExtras = [r \in OvRequests |-> NoExtras]
    /\ ovPc = [r \in OvRequests |-> "done"]
    /\ scannedWith = [r \in OvRequests |-> <<>>]
    /\ lpEntry = "listen"
    /\ lpAllowLocal = FALSE
    /\ lpRequest = [Kind |-> "Text", Local |-> FALSE, Resource |-> "url"]
    /\ lpPc = "done"
    /\ lpCloneFrom = "none"
    /\ lpScanned = "none"
    /\ lpCode = noCode

NextQueue ==
    \/ /\ nextId <= MaxMsgs
       /\ \E s \in Senders, p \in Priorities : SendBegin(s, p)
       /\ UNCHANGED <<pvars, wvars, mvars, gvars, xvars>>
    \/ \E r \in Receivers : RecvStart(r) /\ UNCHANGED <<pvars, wvars, mvars, gvars, xvars>>
    \/ QueueStep /\ UNCHANGED <<pvars, wvars, mvars, gvars, xvars>>

SpecQueue == InitQueue /\ [][NextQueue]_vars

\* The pattern cache on its own: NewPatterns(cfg, client) holds nothing in
\* memory; LocalPath holds what an earlier run or the operator left there.
InitPatterns ==
    /\ maxSize = 0
    /\ heap = {}
    /\ nextId = 1
    /\ pumpPc = "check"
    /\ pumpMsg = NoMsg
    /\ sPc = [s \in Senders |-> "idle"]
    /\ sMsg = [s \in Senders |-> NoMsg]
    /\ spaceWaiters = <<>>
    /\ rPc = [r \in Receivers |-> "off"]
    /\ rMsg = [r \in Receivers |-> NoMsg]
    /\ delivered = {}
    /\ autofetch \in BOOLEAN
    /\ refreshAfter \in {0, 1}
    /\ expiredAfter \in {0, 2}
    /\ gitleaksConfig = Nil
    /\ gitleaksConfigHash = ZeroHash
    /\ localFile \in {NoFile, GoodBody, NotTomlBody}
    /\ fileAge = 0
    /\ lastLoad = [seq |-> 0, fetch |-> NoFetch, write |-> "ok",
                   ret |-> Outcome("none", Nil, FALSE, Nil, ZeroHash, NoFile, FALSE)]
    /\ allowLocal = FALSE
    /\ scanTimeout = 0
    /\ reqs = <<>>
    /\ wDir = [w \in Receivers |-> NoDir]
    /\ wDefer = [w \in Receivers |-> FALSE]
    /\ dirs = {}
    /\ localDirs = {}
    /\ nextDir = 1
    /\ responses = <<>>
    /\ mutex = "free"
    /\ gPc = [w \in Receivers |-> "idle"]
    /\ gSaw = [w \in Receivers |-> FALSE]
    /\ gRet = [w \in Receivers |-> NoOutcome]
    /\ gitPc = "done"
    /\ gitWait = FALSE
    /\ gitExit = "none"
    /\ procs = {}
    /\ gitCtxDone = FALSE
    /\ gitCode = noCode
    /\ optsDepth = 0
    /\ maxScanDepth = 0
    /\ depthPc = "done"
    /\ cloneDepthArg = 0
    /\ scanDepthOpt = 0
    /\ lines = <<>>
    /\ nextLine = 1
    /\ listenPc = "exit"
    /\ accepted = <<>>
    /\ sent = {}
    /\ answered = {}
    /\ frRequestKind = ""
    /\ frFile = <<>>
    /\ frPc = "done"
    /\ frResult = [Kind |-> "", Path |-> <<>>, manifest |-> <<>>]
    /\ imgOpts = [Depth |-> 0, Since |-> 0, Exclusions |-> {}]
    /\ imgSource = [Depth |-> 0, Since |-> 0, Exclusions |-> {}]
    /\ imgLayers = <<>>
    /\ imgHistoriesMatch = TRUE
    /\ imgPc = "done"
    /\ imgIndex = 1
    /\ currentDepth = 0
    /\ imgScanned = {}
    /\ parseRaw = NoBody
    /\ parsePanics = FALSE
    /\ parsePc = "done"
    /\ parseResult = [cfg |-> Nil, err |-> FALSE]
    /\ ovKind = [r \in OvRequests |-> "Text"]
    /\ ovFiles = [r \in OvRequests |-> NoOverlay]
    /\ cfgArray = <<>>
    /\ cfgLen = 0
    /\ detShared = [r \in OvRequests |-> TRUE]
    /\ detArray = [r \in OvRequests |-> <<>>]
    /\ detLen = [r \in OvRequests |-> 0]
    /\ detRules = [r \in OvRequests |-> 0]
    /\ detExtras = [r \in OvRequests |-> NoExtras]
    /\ ovPc = [r \in OvRequests |-> "done"]
    /\ scannedWith = [r \in OvRequests |-> <<>>]
    /\ lpEntry = "listen"
    /\ lpAllowLocal = FALSE
    /\ lpRequest = [Kind |-> "Text", Local |-> FALSE, Resource |-> "url"]
    /\ lpPc = "done"
    /\ lpCloneFrom = "none"
    /\ lpScanned = "none"
    /\ lpCode = noCode

NextPatterns ==
    \/ \E fetch \in FetchOutcomes, write \in WriteOutcomes :
         CallGitleaks(fetch, write) /\ UNCHANGED <<qvars, wvars, mvars, gvars, xvars>>
    \/ Tick /\ UNCHANGED <<lastLoad, qvars, wvars, mvars, gvars, xvars>>

SpecPatterns == InitPatterns /\ [][NextPatterns]_vars

\* The scanner: NewScanner(cfg) has built the pattern cache and both queues and
\* started scanWorkers = 2 workers, which wait in scanQueue.Recv.
InitScanner ==
    /\ maxSize = 0
    /\ heap = {}
    /\ nextId = 1
    /\ pumpPc = "check"
    /\ pumpMsg = NoMsg
    /\ sPc = [s \in Senders |-> "idle"]
    /\ sMsg = [s \in Senders |-> NoMsg]
    /\ spaceWaiters = <<>>
    /\ rPc = [r \in Receivers |-> "recv"]
    /\ rMsg = [r \in Receivers |-> NoMsg]
    /\ delivered = {}
    /\ autofetch = TRUE
    /\ refreshAfter = 1
    /\ expiredAfter = 0
    /\ gitleaksConfig = Nil
    /\ gitleaksConfigHash = ZeroHash
    /\ localFile = GoodBody
    /\ fileAge = 0
    /\ lastLoad = [seq |-> 0, fetch |-> NoFetch, write |-> "ok",
                   ret |-> Outcome("none", Nil, FALSE, Nil, ZeroHash, NoFile, FALSE)]
    /\ allowLocal \in BOOLEAN
    /\ scanTimeout \in {0, 10}
    /\ reqs = <<>>
    /\ wDir = [w \in Receivers |-> NoDir]
    /\ wDefer = [w \in Receivers |-> FALSE]
    /\ dirs = {}
    /\ localDirs = {}
    /\ nextDir = 1
    /\ responses = <<>>
    /\ mutex = "free"
    /\ gPc = [w \in Receivers |-> "idle"]
    /\ gSaw = [w \in Receivers |-> FALSE]
    /\ gRet = [w \in Receivers |-> NoOutcome]
    /\ gitPc = "done"
    /\ gitWait = FALSE
    /\ gitExit = "none"
    /\ procs = {}
    /\ gitCtxDone = FALSE
    /\ gitCode = noCode
    /\ optsDepth = 0
    /\ maxScanDepth = 0
    /\ depthPc = "done"
    /\ cloneDepthArg = 0
    /\ scanDepthOpt = 0
    /\ lines = <<>>
    /\ nextLine = 1
    /\ listenPc = "exit"
    /\ accepted = <<>>
    /\ sent = {}
    /\ answered = {}
    /\ frRequestKind = ""
    /\ frFile = <<>>
    /\ frPc = "done"
    /\ frResult = [Kind |-> "", Path |-> <<>>, manifest |-> <<>>]
    /\ imgOpts = [Depth |-> 0, Since |-> 0, Exclusions |-> {}]
    /\ imgSource = [Depth |-> 0, Since |-> 0, Exclusions |-> {}]
    /\ imgLayers = <<>>
    /\ imgHistoriesMatch = TRUE
    /\ imgPc = "done"
    /\ imgIndex = 1
    /\ currentDepth = 0
    /\ imgScanned = {}
    /\ parseRaw = NoBody
    /\ parsePanics = FALSE
    /\ parsePc = "done"
    /\ parseResult = [cfg |-> Nil, err |-> FALSE]
    /\ ovKind = [r \in OvRequests |-> "Text"]
    /\ ovFiles = [r \in OvRequests |-> NoOverlay]
    /\ cfgArray = <<>>
    /\ cfgLen = 0
    /\ detShared = [r \in OvRequests |-> TRUE]
    /\ detArray = [r \in OvRequests |-> <<>>]
    /\ detLen = [r \in OvRequests |-> 0]
    /\ detRules = [r \in OvRequests |-> 0]
    /\ detExtras = [r \in OvRequests |-> NoExtras]
    /\ ovPc = [r \in OvRequests |-> "done"]
    /\ scannedWith = [r \in OvRequests |-> <<>>]
    /\ lpEntry = "listen"
    /\ lpAllowLocal = FALSE
    /\ lpRequest = [Kind |-> "Text", Local |-> FALSE, Resource |-> "url"]
    /\ lpPc = "done"
    /\ lpCloneFrom = "none"
    /\ lpScanned = "none"
    /\ lpCode = noCode

NextScanner ==
    \/ /\ nextId <= MaxRequests
       /\ \E shape \in RequestShapes, p \in Priorities : ScannerSend(shape, p)
       /\ UNCHANGED <<pvars, mvars, gvars, xvars>>
    \/ \E w \in Receivers : ScanQueueRecv(w) /\ UNCHANGED <<pvars, mvars, gvars, xvars>>
    \/ \E w \in Receivers, fetch \in ScannerFetches, write \in {"ok", "openfail"},
          late \in BOOLEAN : ListenLoad(w, fetch, write, late) /\ UNCHANGED <<mvars, gvars, xvars>>
    \/ \E w \in Receivers, outcome \in CloneOutcomes, abs \in BOOLEAN :
         ListenRoute(w, outcome, abs) /\ UNCHANGED <<mvars, gvars, xvars>>
    \/ \E w \in Receivers, findings \in FindingLists, outcome \in ScanOutcomes :
         ListenScan(w, findings, outcome) /\ UNCHANGED <<mvars, gvars, xvars>>
    \/ fileAge <= refreshAfter /\ Tick /\ UNCHANGED <<lastLoad, qvars, wvars, mvars, gvars, xvars>>

SpecScanner == InitScanner /\ [][NextScanner]_vars

\* The workers of a scanner calling Patterns.Gitleaks concurrently, on a cache
\* with autofetch on and RefreshAfter = 1 second
InitMutex ==
    /\ maxSize = 0
    /\ heap = {}
    /\ nextId = 1
    /\ pumpPc = "check"
    /\ pumpMsg = NoMsg
    /\ sPc = [s \in Senders |-> "idle"]
    /\ sMsg = [s \in Senders |-> NoMsg]
    /\ spaceWaiters = <<>>
    /\ rPc = [r \in Receivers |-> "off"]
    /\ rMsg = [r \in Receivers |-> NoMsg]
    /\ delivered = {}
    /\ autofetch = TRUE
    /\ refreshAfter = 1
    /\ expiredAfter = 0
    /\ gitleaksConfig = Nil
    /\ gitleaksConfigHash = ZeroHash
    /\ localFile \in {NoFile, GoodBody}
    /\ fileAge \in {0, 2}
    /\ lastLoad = [seq |-> 0, fetch |-> NoFetch, write |-> "ok",
                   ret |-> Outcome("none", Nil, FALSE, Nil, ZeroHash, NoFile, FALSE)]
    /\ allowLocal = FALSE
    /\ scanTimeout = 0
    /\ reqs = <<>>
    /\ wDir = [w \in Receivers |-> NoDir]
    /\ wDefer = [w \in Receivers |-> FALSE]
    /\ dirs = {}
    /\ localDirs = {}
    /\ nextDir = 1
    /\ responses = <<>>
    /\ mutex = "free"
    /\ gPc = [w \in Receivers |-> "idle"]
    /\ gSaw = [w \in Receivers |-> FALSE]
    /\ gRet = [w \in Receivers |-> NoOutcome]
    /\ gitPc = "done"
    /\ gitWait = FALSE
    /\ gitExit = "none"
    /\ procs = {}
    /\ gitCtxDone = FALSE
    /\ gitCode = noCode
    /\ optsDepth = 0
    /\ maxScanDepth = 0
    /\ depthPc = "done"
    /\ cloneDepthArg = 0
    /\ scanDepthOpt = 0
    /\ lines = <<>>
    /\ nextLine = 1
    /\ listenPc = "exit"
    /\ accepted = <<>>
    /\ sent = {}
    /\ answered = {}
    /\ frRequestKind = ""
    /\ frFile = <<>>
    /\ frPc = "done"
    /\ frResult = [Kind |-> "", Path |-> <<>>, manifest |-> <<>>]
    /\ imgOpts = [Depth |-> 0, Since |-> 0, Exclusions |-> {}]
    /\ imgSource = [Depth |-> 0, Since |-> 0, Exclusions |-> {}]
    /\ imgLayers = <<>>
    /\ imgHistoriesMatch = TRUE
    /\ imgPc = "done"
    /\ imgIndex = 1
    /\ currentDepth = 0
    /\ imgScanned = {}
    /\ parseRaw = NoBody
    /\ parsePanics = FALSE
    /\ parsePc = "done"
    /\ parseResult = [cfg |-> Nil, err |-> FALSE]
    /\ ovKind = [r \in OvRequests |-> "Text"]
    /\ ovFiles = [r \in OvRequests |-> NoOverlay]
    /\ cfgArray = <<>>
    /\ cfgLen = 0
    /\ detShared = [r \in OvRequests |-> TRUE]
    /\ detArray = [r \in OvRequests |-> <<>>]
    /\ detLen = [r \in OvRequests |-> 0]
    /\ detRules = [r \in OvRequests |-> 0]
    /\ detExtras = [r \in OvRequests |-> NoExtras]
    /\ ovPc = [r \in OvRequests |-> "done"]
    /\ scannedWith = [r \in OvRequests |-> <<>>]
    /\ lpEntry = "listen"
    /\ lpAllowLocal = FALSE
    /\ lpRequest = [Kind |-> "Text", Local |-> FALSE, Resource |-> "url"]
    /\ lpPc = "done"
    /\ lpCloneFrom = "none"
    /\ lpScanned = "none"
    /\ lpCode = noCode

NextMutex ==
    \/ \E w \in Receivers : GitleaksBegin(w) /\ UNCHANGED <<qvars, wvars, gvars, xvars>>
    \/ \E w \in Receivers : GitleaksLock(w) /\ UNCHANGED <<qvars, wvars, gvars, xvars>>
    \/ \E w \in Receivers, fetch \in FetchOutcomes, write \in WriteOutcomes :
         GitleaksUnlock(w, fetch, write) /\ UNCHANGED <<qvars, wvars, gvars, xvars>>
    \/ Tick /\ UNCHANGED <<lastLoad, qvars, wvars, mvars, gvars, xvars>>

SpecMutex == InitMutex /\ [][NextMutex]_vars

\* Whatever the worker, os/exec and the git processes can do by themselves
GitStep ==
    \/ \E hung, childHung \in BOOLEAN : GitStart(hung, childHung)
    \/ \E p \in procs, status \in {"ok", "fail"} : ProcessExit(p, status)
    \/ \E p \in procs : ContextKill(p)
    \/ GitReturn
    \/ \E outcome \in ScanOutcomes : GitScan(outcome)

\* A worker has loaded the patterns for a GitRepo request with Opts.Local =
\* false and enters cloneGitRepo, with or without Opts.Branch
InitGit ==
    /\ maxSize = 0
    /\ heap = {}
    /\ nextId = 1
    /\ pumpPc = "check"
    /\ pumpMsg = NoMsg
    /\ sPc = [s \in Senders |-> "idle"]
    /\ sMsg = [s \in Senders |-> NoMsg]
    /\ spaceWaiters = <<>>
    /\ rPc = [r \in Receivers |-> "off"]
    /\ rMsg = [r \in Receivers |-> NoMsg]
    /\ delivered = {}
    /\ autofetch = FALSE
    /\ refreshAfter = 0
    /\ expiredAfter = 0
    /\ gitleaksConfig = Nil
    /\ gitleaksConfigHash = ZeroHash
    /\ localFile = NoFile
    /\ fileAge = 0
    /\ lastLoad = [seq |-> 0, fetch |-> NoFetch, write |-> "ok",
                   ret |-> Outcome("none", Nil, FALSE, Nil, ZeroHash, NoFile, FALSE)]
    /\ allowLocal = FALSE
    /\ scanTimeout \in {0, 10}
    /\ reqs = <<>>
    /\ wDir = [w \in Receivers |-> NoDir]
    /\ wDefer = [w \in Receivers |-> FALSE]
    /\ dirs = {}
    /\ localDirs = {}
    /\ nextDir = 1
    /\ responses = <<>>
    /\ mutex = "free"
    /\ gPc = [w \in Receivers |-> "idle"]
    /\ gSaw = [w \in Receivers |-> FALSE]
    /\ gRet = [w \in Receivers |-> NoOutcome]
    /\ gitPc \in {"ls-remote", "clone"}
    /\ gitWait = FALSE
    /\ gitExit = "none"
    /\ procs = {}
    /\ gitCtxDone = FALSE
    /\ gitCode = noCode
    /\ optsDepth = 0
    /\ maxScanDepth = 0
    /\ depthPc = "done"
    /\ cloneDepthArg = 0
    /\ scanDepthOpt = 0
    /\ lines = <<>>
    /\ nextLine = 1
    /\ listenPc = "exit"
    /\ accepted = <<>>
    /\ sent = {}
    /\ answered = {}
    /\ frRequestKind = ""
    /\ frFile = <<>>
    /\ frPc = "done"
    /\ frResult = [Kind |-> "", Path |-> <<>>, manifest |-> <<>>]
    /\ imgOpts = [Depth |-> 0, Since |-> 0, Exclusions |-> {}]
    /\ imgSource = [Depth |-> 0, Since |-> 0, Exclusions |-> {}]
    /\ imgLayers = <<>>
    /\ imgHistoriesMatch = TRUE
    /\ imgPc = "done"
    /\ imgIndex = 1
    /\ currentDepth = 0
    /\ imgScanned = {}
    /\ parseRaw = NoBody
    /\ parsePanics = FALSE
    /\ parsePc = "done"
    /\ parseResult = [cfg |-> Nil, err |-> FALSE]
    /\ ovKind = [r \in OvRequests |-> "Text"]
    /\ ovFiles = [r \in OvRequests |-> NoOverlay]
    /\ cfgArray = <<>>
    /\ cfgLen = 0
    /\ detShared = [r \in OvRequests |-> TRUE]
    /\ detArray = [r \in OvRequests |-> <<>>]
    /\ detLen = [r \in OvRequests |-> 0]
    /\ detRules = [r \in OvRequests |-> 0]
    /\ detExtras = [r \in OvRequests |-> NoExtras]
    /\ ovPc = [r \in OvRequests |-> "done"]
    /\ scannedWith = [r \in OvRequests |-> <<>>]
    /\ lpEntry = "listen"
    /\ lpAllowLocal = FALSE
    /\ lpRequest = [Kind |-> "Text", Local |-> FALSE, Resource |-> "url"]
    /\ lpPc = "done"
    /\ lpCloneFrom = "none"
    /\ lpScanned = "none"
    /\ lpCode = noCode

NextGit ==
    \/ \E hung, childHung \in BOOLEAN :
         GitStart(hung, childHung) /\ UNCHANGED <<qvars, pvars, wvars, mvars, xvars>>
    \/ \E p \in procs, status \in {"ok", "fail"} :
         ProcessExit(p, status) /\ UNCHANGED <<qvars, pvars, wvars, mvars, xvars>>
    \/ \E p \in procs : ContextKill(p) /\ UNCHANGED <<qvars, pvars, wvars, mvars, xvars>>
    \/ GitReturn /\ UNCHANGED <<qvars, pvars, wvars, mvars, xvars>>
    \/ \E outcome \in ScanOutcomes :
         GitScan(outcome) /\ UNCHANGED <<qvars, pvars, wvars, mvars, xvars>>
    \/ DeadlineElapses /\ UNCHANGED <<qvars, pvars, wvars, mvars, xvars>>

SpecGit == InitGit /\ [][NextGit]_vars

\* Identities of the messages whose Send has returned
Returned ==
    (1 .. nextId - 1) \ {sMsg[s].id : s \in {x \in Senders : sPc[x] # "idle"}}

\* One goroutine sends MaxMsgs messages one after the other, as the single
\* worker of a scanner does on the response queue, and one receiver, the
\* client, starts Recv once every Send has returned.
InitClient ==
    /\ maxSize \in MaxSizes
    /\ heap = {}
    /\ nextId = 1
    /\ pumpPc = "check"
    /\ pumpMsg = NoMsg
    /\ sPc = [s \in Senders |-> "idle"]
    /\ sMsg = [s \in Senders |-> NoMsg]
    /\ spaceWaiters = <<>>
    /\ rPc = [r \in Receivers |-> "off"]
    /\ rMsg = [r \in Receivers |-> NoMsg]
    /\ delivered = {}
    /\ autofetch = FALSE
    /\ refreshAfter = 0
    /\ expiredAfter = 0
    /\ gitleaksConfig = Nil
    /\ gitleaksConfigHash = ZeroHash
    /\ localFile = NoFile
    /\ fileAge = 0
    /\ lastLoad = [seq |-> 0, fetch |-> NoFetch, write |-> "ok",
                   ret |-> Outcome("none", Nil, FALSE, Nil, ZeroHash, NoFile, FALSE)]
    /\ allowLocal = FALSE
    /\ scanTimeout = 0
    /\ reqs = <<>>
    /\ wDir = [w \in Receivers |-> NoDir]
    /\ wDefer = [w \in Receivers |-> FALSE]
    /\ dirs = {}
    /\ localDirs = {}
    /\ nextDir = 1
    /\ responses = <<>>
    /\ mutex = "free"
    /\ gPc = [w \in Receivers |-> "idle"]
    /\ gSaw = [w \in Receivers |-> FALSE]
    /\ gRet = [w \in Receivers |-> NoOutcome]
    /\ gitPc = "done"
    /\ gitWait = FALSE
    /\ gitExit = "none"
    /\ procs = {}
    /\ gitCtxDone = FALSE
    /\ gitCode = noCode
    /\ optsDepth = 0
    /\ maxScanDepth = 0
    /\ depthPc = "done"
    /\ cloneDepthArg = 0
    /\ scanDepthOpt = 0
    /\ lines = <<>>
    /\ nextLine = 1
    /\ listenPc = "exit"
    /\ accepted = <<>>
    /\ sent = {}
    /\ answered = {}
    /\ frRequestKind = ""
    /\ frFile = <<>>
    /\ frPc = "done"
    /\ frResult = [Kind |-> "", Path |-> <<>>, manifest |-> <<>>]
    /\ imgOpts = [Depth |-> 0, Since |-> 0, Exclusions |-> {}]
    /\ imgSource = [Depth |-> 0, Since |-> 0, Exclusions |-> {}]
    /\ imgLayers = <<>>
    /\ imgHistoriesMatch = TRUE
    /\ imgPc = "done"
    /\ imgIndex = 1
    /\ currentDepth = 0
    /\ imgScanned = {}
    /\ parseRaw = NoBody
    /\ parsePanics = FALSE
    /\ parsePc = "done"
    /\ parseResult = [cfg |-> Nil, err |-> FALSE]
    /\ ovKind = [r \in OvRequests |-> "Text"]
    /\ ovFiles = [r \in OvRequests |-> NoOverlay]
    /\ cfgArray = <<>>
    /\ cfgLen = 0
    /\ detShared = [r \in OvRequests |-> TRUE]
    /\ detArray = [r \in OvRequests |-> <<>>]
    /\ detLen = [r \in OvRequests |-> 0]
    /\ detRules = [r \in OvRequests |-> 0]
    /\ detExtras = [r \in OvRequests |-> NoExtras]
    /\ ovPc = [r \in OvRequests |-> "done"]
    /\ scannedWith = [r \in OvRequests |-> <<>>]
    /\ lpEntry = "listen"
    /\ lpAllowLocal = FALSE
    /\ lpRequest = [Kind |-> "Text", Local |-> FALSE, Resource |-> "url"]
    /\ lpPc = "done"
    /\ lpCloneFrom = "none"
    /\ lpScanned = "none"
    /\ lpCode = noCode

NextClient ==
    \/ /\ nextId <= MaxMsgs
       /\ \E p \in Priorities : SendBegin("c1", p)
       /\ UNCHANGED <<pvars, wvars, mvars, gvars, xvars>>
    \/ SendCheck("c1") /\ UNCHANGED <<pvars, wvars, mvars, gvars, xvars>>
    \/ SendWait("c1") /\ UNCHANGED <<pvars, wvars, mvars, gvars, xvars>>
    \/ SendPush("c1") /\ UNCHANGED <<pvars, wvars, mvars, gvars, xvars>>
    \/ SendSignal("c1") /\ UNCHANGED <<pvars, wvars, mvars, gvars, xvars>>
    \/ PumpCheck /\ UNCHANGED <<pvars, wvars, mvars, gvars, xvars>>
    \/ PumpWait /\ UNCHANGED <<pvars, wvars, mvars, gvars, xvars>>
    \/ PumpPop /\ UNCHANGED <<pvars, wvars, mvars, gvars, xvars>>
    \/ PumpHandoff("w1") /\ UNCHANGED <<pvars, wvars, mvars, gvars, xvars>>
    \/ PumpNotify /\ UNCHANGED <<pvars, wvars, mvars, gvars, xvars>>
    \/ PumpSignal /\ UNCHANGED <<pvars, wvars, mvars, gvars, xvars>>
    \/ /\ Returned = 1 .. MaxMsgs
       /\ RecvStart("w1")
       /\ UNCHANGED <<pvars, wvars, mvars, gvars, xvars>>
    \/ RecvDone("w1") /\ UNCHANGED <<pvars, wvars, mvars, gvars, xvars>>

SpecClient == InitClient /\ [][NextClient]_vars

\* A worker takes a remote GitRepo request with some Opts.Depth, in a scanner
\* configured with some MaxScanDepth
InitDepth ==
    /\ maxSize = 0
    /\ heap = {}
    /\ nextId = 1
    /\ pumpPc = "check"
    /\ pumpMsg = NoMsg
    /\ sPc = [s \in Senders |-> "idle"]
    /\ sMsg = [s \in Senders |-> NoMsg]
    /\ spaceWaiters = <<>>
    /\ rPc = [r \in Receivers |-> "off"]
    /\ rMsg = [r \in Receivers |-> NoMsg]
    /\ delivered = {}
    /\ autofetch = FALSE
    /\ refreshAfter = 0
    /\ expiredAfter = 0
    /\ gitleaksConfig = Nil
    /\ gitleaksConfigHash = ZeroHash
    /\ localFile = NoFile
    /\ fileAge = 0
    /\ lastLoad = [seq |-> 0, fetch |-> NoFetch, write |-> "ok",
                   ret |-> Outcome("none", Nil, FALSE, Nil, ZeroHash, NoFile, FALSE)]
    /\ allowLocal = FALSE
    /\ scanTimeout = 0
    /\ reqs = <<>>
    /\ wDir = [w \in Receivers |-> NoDir]
    /\ wDefer = [w \in Receivers |-> FALSE]
    /\ dirs = {}
    /\ localDirs = {}
    /\ nextDir = 1
    /\ responses = <<>>
    /\ mutex = "free"
    /\ gPc = [w \in Receivers |-> "idle"]
    /\ gSaw = [w \in Receivers |-> FALSE]
    /\ gRet = [w \in Receivers |-> NoOutcome]
    /\ gitPc = "done"
    /\ gitWait = FALSE
    /\ gitExit = "none"
    /\ procs = {}
    /\ gitCtxDone = FALSE
    /\ gitCode = noCode
    /\ optsDepth \in 0 .. MaxDepth
    /\ maxScanDepth \in 0 .. MaxDepth
    /\ depthPc = "clone"
    /\ cloneDepthArg = 0
    /\ scanDepthOpt = 0
    /\ lines = <<>>
    /\ nextLine = 1
    /\ listenPc = "exit"
    /\ accepted = <<>>
    /\ sent = {}
    /\ answered = {}
    /\ frRequestKind = ""
    /\ frFile = <<>>
    /\ frPc = "done"
    /\ frResult = [Kind |-> "", Path |-> <<>>, manifest |-> <<>>]
    /\ imgOpts = [Depth |-> 0, Since |-> 0, Exclusions |-> {}]
    /\ imgSource = [Depth |-> 0, Since |-> 0, Exclusions |-> {}]
    /\ imgLayers = <<>>
    /\ imgHistoriesMatch = TRUE
    /\ imgPc = "done"
    /\ imgIndex = 1
    /\ currentDepth = 0
    /\ imgScanned = {}
    /\ parseRaw = NoBody
    /\ parsePanics = FALSE
    /\ parsePc = "done"
    /\ parseResult = [cfg |-> Nil, err |-> FALSE]
    /\ ovKind = [r \in OvRequests |-> "Text"]
    /\ ovFiles = [r \in OvRequests |-> NoOverlay]
    /\ cfgArray = <<>>
    /\ cfgLen = 0
    /\ detShared = [r \in OvRequests |-> TRUE]
    /\ detArray = [r \in OvRequests |-> <<>>]
    /\ detLen = [r \in OvRequests |-> 0]
    /\ detRules = [r \in OvRequests |-> 0]
    /\ detExtras = [r \in OvRequests |-> NoExtras]
    /\ ovPc = [r \in OvRequests |-> "done"]
    /\ scannedWith = [r \in OvRequests |-> <<>>]
    /\ lpEntry = "listen"
    /\ lpAllowLocal = FALSE
    /\ lpRequest = [Kind |-> "Text", Local |-> FALSE, Resource |-> "url"]
    /\ lpPc = "done"
    /\ lpCloneFrom = "none"
    /\ lpScanned = "none"
    /\ lpCode = noCode

NextDepth ==
    \/ CloneDepth /\ UNCHANGED <<qvars, pvars, wvars, mvars, gvars, lvars, rvars, ivars, cvars, ovars, avars>>
    \/ ScanDepth /\ UNCHANGED <<qvars, pvars, wvars, mvars, gvars, lvars, rvars, ivars, cvars, ovars, avars>>

SpecDepth == InitDepth /\ [][NextDepth]_vars

\* `leaktk listen` starts with some lines waiting on stdin
InitListen ==
    /\ maxSize = 0
    /\ heap = {}
    /\ nextId = 1
    /\ pumpPc = "check"
    /\ pumpMsg = NoMsg
    /\ sPc = [s \in Senders |-> "idle"]
    /\ sMsg = [s \in Senders |-> NoMsg]
    /\ spaceWaiters = <<>>
    /\ rPc = [r \in Receivers |-> "off"]
    /\ rMsg = [r \in Receivers |-> NoMsg]
    /\ delivered = {}
    /\ autofetch = FALSE
    /\ refreshAfter = 0
    /\ expiredAfter = 0
    /\ gitleaksConfig = Nil
    /\ gitleaksConfigHash = ZeroHash
    /\ localFile = NoFile
    /\ fileAge = 0
    /\ lastLoad = [seq |-> 0, fetch |-> NoFetch, write |-> "ok",
                   ret |-> Outcome("none", Nil, FALSE, Nil, ZeroHash, NoFile, FALSE)]
    /\ allowLocal = FALSE
    /\ scanTimeout = 0
    /\ reqs = <<>>
    /\ wDir = [w \in Receivers |-> NoDir]
    /\ wDefer = [w \in Receivers |-> FALSE]
    /\ dirs = {}
    /\ localDirs = {}
    /\ nextDir = 1
    /\ responses = <<>>
    /\ mutex = "free"
    /\ gPc = [w \in Receivers |-> "idle"]
    /\ gSaw = [w \in Receivers |-> FALSE]
    /\ gRet = [w \in Receivers |-> NoOutcome]
    /\ gitPc = "done"
    /\ gitWait = FALSE
    /\ gitExit = "none"
    /\ procs = {}
    /\ gitCtxDone = FALSE
    /\ gitCode = noCode
    /\ optsDepth = 0
    /\ maxScanDepth = 0
    /\ depthPc = "done"
    /\ cloneDepthArg = 0
    /\ scanDepthOpt = 0
    /\ lines \in UNION {[1 .. n -> LineShapes] : n \in 0 .. MaxLines}
    /\ nextLine = 1
    /\ listenPc = "loop"
    /\ accepted = <<>>
    /\ sent = {}
    /\ answered = {}
    /\ frRequestKind = ""
    /\ frFile = <<>>
    /\ frPc = "done"
    /\ frResult = [Kind |-> "", Path |-> <<>>, manifest |-> <<>>]
    /\ imgOpts = [Depth |-> 0, Since |-> 0, Exclusions |-> {}]
    /\ imgSource = [Depth |-> 0, Since |-> 0, Exclusions |-> {}]
    /\ imgLayers = <<>>
    /\ imgHistoriesMatch = TRUE
    /\ imgPc = "done"
    /\ imgIndex = 1
    /\ currentDepth = 0
    /\ imgScanned = {}
    /\ parseRaw = NoBody
    /\ parsePanics = FALSE
    /\ parsePc = "done"
    /\ parseResult = [cfg |-> Nil, err |-> FALSE]
    /\ ovKind = [r \in OvRequests |-> "Text"]
    /\ ovFiles = [r \in OvRequests |-> NoOverlay]
    /\ cfgArray = <<>>
    /\ cfgLen = 0
    /\ detShared = [r \in OvRequests |-> TRUE]
    /\ detArray = [r \in OvRequests |-> <<>>]
    /\ detLen = [r \in OvRequests |-> 0]
    /\ detRules = [r \in OvRequests |-> 0]
    /\ detExtras = [r \in OvRequests |-> NoExtras]
    /\ ovPc = [r \in OvRequests |-> "done"]
    /\ scannedWith = [r \in OvRequests |-> <<>>]
    /\ lpEntry = "listen"
    /\ lpAllowLocal = FALSE
    /\ lpRequest = [Kind |-> "Text", Local |-> FALSE, Resource |-> "url"]
    /\ lpPc = "done"
    /\ lpCloneFrom = "none"
    /\ lpScanned = "none"
    /\ lpCode = noCode

NextListen ==
    \/ ListenLine /\ UNCHANGED <<qvars, pvars, wvars, mvars, gvars, dvars, rvars, ivars, cvars, ovars, avars>>
    \/ ListenEOF /\ UNCHANGED <<qvars, pvars, wvars, mvars, gvars, dvars, rvars, ivars, cvars, ovars, avars>>
    \/ \E i \in sent : ListenPrint(i) /\ UNCHANGED <<qvars, pvars, wvars, mvars, gvars, dvars, rvars, ivars, cvars, ovars, avars>>
    \/ ListenReturn /\ UNCHANGED <<qvars, pvars, wvars, mvars, gvars, dvars, rvars, ivars, cvars, ovars, avars>>

SpecListen == InitListen /\ [][NextListen]_vars

\* findingToResult on one finding of one request
InitResult ==
    /\ maxSize = 0
    /\ heap = {}
    /\ nextId = 1
    /\ pumpPc = "check"
    /\ pumpMsg = NoMsg
    /\ sPc = [s \in Senders |-> "idle"]
    /\ sMsg = [s \in Senders |-> NoMsg]
    /\ spaceWaiters = <<>>
    /\ rPc = [r \in Receivers |-> "off"]
    /\ rMsg = [r \in Receivers |-> NoMsg]
    /\ delivered = {}
    /\ autofetch = FALSE
    /\ refreshAfter = 0
    /\ expiredAfter = 0
    /\ gitleaksConfig = Nil
    /\ gitleaksConfigHash = ZeroHash
    /\ localFile = NoFile
    /\ fileAge = 0
    /\ lastLoad = [seq |-> 0, fetch |-> NoFetch, write |-> "ok",
                   ret |-> Outcome("none", Nil, FALSE, Nil, ZeroHash, NoFile, FALSE)]
    /\ allowLocal = FALSE
    /\ scanTimeout = 0
    /\ reqs = <<>>
    /\ wDir = [w \in Receivers |-> NoDir]
    /\ wDefer = [w \in Receivers |-> FALSE]
    /\ dirs = {}
    /\ localDirs = {}
    /\ nextDir = 1
    /\ responses = <<>>
    /\ mutex = "free"
    /\ gPc = [w \in Receivers |-> "idle"]
    /\ gSaw = [w \in Receivers |-> FALSE]
    /\ gRet = [w \in Receivers |-> NoOutcome]
    /\ gitPc = "done"
    /\ gitWait = FALSE
    /\ gitExit = "none"
    /\ procs = {}
    /\ gitCtxDone = FALSE
    /\ gitCode = noCode
    /\ optsDepth = 0
    /\ maxScanDepth = 0
    /\ depthPc = "done"
    /\ cloneDepthArg = 0
    /\ scanDepthOpt = 0
    /\ lines = <<>>
    /\ nextLine = 1
    /\ listenPc = "exit"
    /\ accepted = <<>>
    /\ sent = {}
    /\ answered = {}
    /\ frRequestKind \in {"GitRepo", "ContainerImage", "URL", "Text"}
    /\ frFile \in FindingFiles
    /\ frPc = "call"
    /\ frResult = [Kind |-> "", Path |-> <<>>, manifest |-> <<>>]
    /\ imgOpts = [Depth |-> 0, Since |-> 0, Exclusions |-> {}]
    /\ imgSource = [Depth |-> 0, Since |-> 0, Exclusions |-> {}]
    /\ imgLayers = <<>>
    /\ imgHistoriesMatch = TRUE
    /\ imgPc = "done"
    /\ imgIndex = 1
    /\ currentDepth = 0
    /\ imgScanned = {}
    /\ parseRaw = NoBody
    /\ parsePanics = FALSE
    /\ parsePc = "done"
    /\ parseResult = [cfg |-> Nil, err |-> FALSE]
    /\ ovKind = [r \in OvRequests |-> "Text"]
    /\ ovFiles = [r \in OvRequests |-> NoOverlay]
    /\ cfgArray = <<>>
    /\ cfgLen = 0
    /\ detShared = [r \in OvRequests |-> TRUE]
    /\ detArray = [r \in OvRequests |-> <<>>]
    /\ detLen = [r \in OvRequests |-> 0]
    /\ detRules = [r \in OvRequests |-> 0]
    /\ detExtras = [r \in OvRequests |-> NoExtras]
    /\ ovPc = [r \in OvRequests |-> "done"]
    /\ scannedWith = [r \in OvRequests |-> <<>>]
    /\ lpEntry = "listen"
    /\ lpAllowLocal = FALSE
    /\ lpRequest = [Kind |-> "Text", Local |-> FALSE, Resource |-> "url"]
    /\ lpPc = "done"
    /\ lpCloneFrom = "none"
    /\ lpScanned = "none"
    /\ lpCode = noCode

NextResult ==
    FindingToResult /\ UNCHANGED <<qvars, pvars, wvars, mvars, gvars, dvars, lvars, ivars, cvars, ovars, avars>>

SpecResult == InitResult /\ [][NextResult]_vars

\* A ContainerImage request from listen to the end of Fragments
InitImage ==
    /\ maxSize = 0
    /\ heap = {}
    /\ nextId = 1
    /\ pumpPc = "check"
    /\ pumpMsg = NoMsg
    /\ sPc = [s \in Senders |-> "idle"]
    /\ sMsg = [s \in Senders |-> NoMsg]
    /\ spaceWaiters = <<>>
    /\ rPc = [r \in Receivers |-> "off"]
    /\ rMsg = [r \in Receivers |-> NoMsg]
    /\ delivered = {}
    /\ autofetch = FALSE
    /\ refreshAfter = 0
    /\ expiredAfter = 0
    /\ gitleaksConfig = Nil
    /\ gitleaksConfigHash = ZeroHash
    /\ localFile = NoFile
    /\ fileAge = 0
    /\ lastLoad = [seq |-> 0, fetch |-> NoFetch, write |-> "ok",
                   ret |-> Outcome("none", Nil, FALSE, Nil, ZeroHash, NoFile, FALSE)]
    /\ allowLocal = FALSE
    /\ scanTimeout = 0
    /\ reqs = <<>>
    /\ wDir = [w \in Receivers |-> NoDir]
    /\ wDefer = [w \in Receivers |-> FALSE]
    /\ dirs = {}
    /\ localDirs = {}
    /\ nextDir = 1
    /\ responses = <<>>
    /\ mutex = "free"
    /\ gPc = [w \in Receivers |-> "idle"]
    /\ gSaw = [w \in Receivers |-> FALSE]
    /\ gRet = [w \in Receivers |-> NoOutcome]
    /\ gitPc = "done"
    /\ gitWait = FALSE
    /\ gitExit = "none"
    /\ procs = {}
    /\ gitCtxDone = FALSE
    /\ gitCode = noCode
    /\ optsDepth = 0
    /\ maxScanDepth = 0
    /\ depthPc = "done"
    /\ cloneDepthArg = 0
    /\ scanDepthOpt = 0
    /\ lines = <<>>
    /\ nextLine = 1
    /\ listenPc = "exit"
    /\ accepted = <<>>
    /\ sent = {}
    /\ answered = {}
    /\ frRequestKind = ""
    /\ frFile = <<>>
    /\ frPc = "done"
    /\ frResult = [Kind |-> "", Path |-> <<>>, manifest |-> <<>>]
    /\ imgOpts \in ImageOpts
    /\ imgSource = [Depth |-> 0, Since |-> 0, Exclusions |-> {}]
    /\ imgLayers \in UNION {[1 .. n -> LayerInfos] : n \in 0 .. MaxLayers}
    /\ imgHistoriesMatch \in BOOLEAN
    /\ imgPc = "listen"
    /\ imgIndex = 1
    /\ currentDepth = 0
    /\ imgScanned = {}
    /\ parseRaw = NoBody
    /\ parsePanics = FALSE
    /\ parsePc = "done"
    /\ parseResult = [cfg |-> Nil, err |-> FALSE]
    /\ ovKind = [r \in OvRequests |-> "Text"]
    /\ ovFiles = [r \in OvRequests |-> NoOverlay]
    /\ cfgArray = <<>>
    /\ cfgLen = 0
    /\ detShared = [r \in OvRequests |-> TRUE]
    /\ detArray = [r \in OvRequests |-> <<>>]
    /\ detLen = [r \in OvRequests |-> 0]
    /\ detRules = [r \in OvRequests |-> 0]
    /\ detExtras = [r \in OvRequests |-> NoExtras]
    /\ ovPc = [r \in OvRequests |-> "done"]
    /\ scannedWith = [r \in OvRequests |-> <<>>]
    /\ lpEntry = "listen"
    /\ lpAllowLocal = FALSE
    /\ lpRequest = [Kind |-> "Text", Local |-> FALSE, Resource |-> "url"]
    /\ lpPc = "done"
    /\ lpCloneFrom = "none"
    /\ lpScanned = "none"
    /\ lpCode = noCode

NextImage ==
    \/ ScanContainerImage /\ UNCHANGED <<qvars, pvars, wvars, mvars, gvars, dvars, lvars, rvars, cvars, ovars, avars>>
    \/ FragmentsLayer /\ UNCHANGED <<qvars, pvars, wvars, mvars, gvars, dvars, lvars, rvars, cvars, ovars, avars>>
    \/ FragmentsReturn /\ UNCHANGED <<qvars, pvars, wvars, mvars, gvars, dvars, lvars, rvars, cvars, ovars, avars>>

SpecImage == InitImage /\ [][NextImage]_vars

\* gitleaks.ParseConfig on one pattern file
InitParse ==
    /\ maxSize = 0
    /\ heap = {}
    /\ nextId = 1
    /\ pumpPc = "check"
    /\ pumpMsg = NoMsg
    /\ sPc = [s \in Senders |-> "idle"]
    /\ sMsg = [s \in Senders |-> NoMsg]
    /\ spaceWaiters = <<>>
    /\ rPc = [r \in Receivers |-> "off"]
    /\ rMsg = [r \in Receivers |-> NoMsg]
    /\ delivered = {}
    /\ autofetch = FALSE
    /\ refreshAfter = 0
    /\ expiredAfter = 0
    /\ gitleaksConfig = Nil
    /\ gitleaksConfigHash = ZeroHash
    /\ localFile = NoFile
    /\ fileAge = 0
    /\ lastLoad = [seq |-> 0, fetch |-> NoFetch, write |-> "ok",
                   ret |-> Outcome("none", Nil, FALSE, Nil, ZeroHash, NoFile, FALSE)]
    /\ allowLocal = FALSE
    /\ scanTimeout = 0
    /\ reqs = <<>>
    /\ wDir = [w \in Receivers |-> NoDir]
    /\ wDefer = [w \in Receivers |-> FALSE]
    /\ dirs = {}
    /\ localDirs = {}
    /\ nextDir = 1
    /\ responses = <<>>
    /\ mutex = "free"
    /\ gPc = [w \in Receivers |-> "idle"]
    /\ gSaw = [w \in Receivers |-> FALSE]
    /\ gRet = [w \in Receivers |-> NoOutcome]
    /\ gitPc = "done"
    /\ gitWait = FALSE
    /\ gitExit = "none"
    /\ procs = {}
    /\ gitCtxDone = FALSE
    /\ gitCode = noCode
    /\ optsDepth = 0
    /\ maxScanDepth = 0
    /\ depthPc = "done"
    /\ cloneDepthArg = 0
    /\ scanDepthOpt = 0
    /\ lines = <<>>
    /\ nextLine = 1
    /\ listenPc = "exit"
    /\ accepted = <<>>
    /\ sent = {}
    /\ answered = {}
    /\ frRequestKind = ""
    /\ frFile = <<>>
    /\ frPc = "done"
    /\ frResult = [Kind |-> "", Path |-> <<>>, manifest |-> <<>>]
    /\ imgOpts = [Depth |-> 0, Since |-> 0, Exclusions |-> {}]
    /\ imgSource = [Depth |-> 0, Since |-> 0, Exclusions |-> {}]
    /\ imgLayers = <<>>
    /\ imgHistoriesMatch = TRUE
    /\ imgPc = "done"
    /\ imgIndex = 1
    /\ currentDepth = 0
    /\ imgScanned = {}
    /\ parseRaw \in RawConfigs
    /\ parsePanics \in BOOLEAN
    /\ parsePc = "call"
    /\ parseResult = [cfg |-> Nil, err |-> FALSE]
    /\ ovKind = [r \in OvRequests |-> "Text"]
    /\ ovFiles = [r \in OvRequests |-> NoOverlay]
    /\ cfgArray = <<>>
    /\ cfgLen = 0
    /\ detShared = [r \in OvRequests |-> TRUE]
    /\ detArray = [r \in OvRequests |-> <<>>]
    /\ detLen = [r \in OvRequests |-> 0]
    /\ detRules = [r \in OvRequests |-> 0]
    /\ detExtras = [r \in OvRequests |-> NoExtras]
    /\ ovPc = [r \in OvRequests |-> "done"]
    /\ scannedWith = [r \in OvRequests |-> <<>>]
    /\ lpEntry = "listen"
    /\ lpAllowLocal = FALSE
    /\ lpRequest = [Kind |-> "Text", Local |-> FALSE, Resource |-> "url"]
    /\ lpPc = "done"
    /\ lpCloneFrom = "none"
    /\ lpScanned = "none"
    /\ lpCode = noCode

NextParse ==
    ParseConfigCall /\ UNCHANGED <<qvars, pvars, wvars, mvars, gvars, dvars, lvars, rvars, ivars, ovars, avars>>

SpecParse == InitParse /\ [][NextParse]_vars

\* Two workers with a request each, from detect.NewDetector to the scan
InitOverlay ==
    /\ maxSize = 0
    /\ heap = {}
    /\ nextId = 1
    /\ pumpPc = "check"
    /\ pumpMsg = NoMsg
    /\ sPc = [s \in Senders |-> "idle"]
    /\ sMsg = [s \in Senders |-> NoMsg]
    /\ spaceWaiters = <<>>
    /\ rPc = [r \in Receivers |-> "off"]
    /\ rMsg = [r \in Receivers |-> NoMsg]
    /\ delivered = {}
    /\ autofetch = FALSE
    /\ refreshAfter = 0
    /\ expiredAfter = 0
    /\ gitleaksConfig = Nil
    /\ gitleaksConfigHash = ZeroHash
    /\ localFile = NoFile
    /\ fileAge = 0
    /\ lastLoad = [seq |-> 0, fetch |-> NoFetch, write |-> "ok",
                   ret |-> Outcome("none", Nil, FALSE, Nil, ZeroHash, NoFile, FALSE)]
    /\ allowLocal = FALSE
    /\ scanTimeout = 0
    /\ reqs = <<>>
    /\ wDir = [w \in Receivers |-> NoDir]
    /\ wDefer = [w \in Receivers |-> FALSE]
    /\ dirs = {}
    /\ localDirs = {}
    /\ nextDir = 1
    /\ responses = <<>>
    /\ mutex = "free"
    /\ gPc = [w \in Receivers |-> "idle"]
    /\ gSaw = [w \in Receivers |-> FALSE]
    /\ gRet = [w \in Receivers |-> NoOutcome]
    /\ gitPc = "done"
    /\ gitWait = FALSE
    /\ gitExit = "none"
    /\ procs = {}
    /\ gitCtxDone = FALSE
    /\ gitCode = noCode
    /\ optsDepth = 0
    /\ maxScanDepth = 0
    /\ depthPc = "done"
    /\ cloneDepthArg = 0
    /\ scanDepthOpt = 0
    /\ lines = <<>>
    /\ nextLine = 1
    /\ listenPc = "exit"
    /\ accepted = <<>>
    /\ sent = {}
    /\ answered = {}
    /\ frRequestKind = ""
    /\ frFile = <<>>
    /\ frPc = "done"
    /\ frResult = [Kind |-> "", Path |-> <<>>, manifest |-> <<>>]
    /\ imgOpts = [Depth |-> 0, Since |-> 0, Exclusions |-> {}]
    /\ imgSource = [Depth |-> 0, Since |-> 0, Exclusions |-> {}]
    /\ imgLayers = <<>>
    /\ imgHistoriesMatch = TRUE
    /\ imgPc = "done"
    /\ imgIndex = 1
    /\ currentDepth = 0
    /\ imgScanned = {}
    /\ parseRaw = NoBody
    /\ parsePanics = FALSE
    /\ parsePc = "done"
    /\ parseResult = [cfg |-> Nil, err |-> FALSE]
    /\ ovKind \in [OvRequests -> {"GitRepo", "Files", "Text"}]
    /\ ovFiles \in {f \in [OvRequests -> Overlays] :
           \A r \in OvRequests : ovKind[r] = "Text" => f[r] = NoOverlay}
    /\ cfgArray \in {AllowlistsOf("cache", CachedConfig) \o [i \in 1 .. n |-> FreeSlot] :
           n \in 0 .. MaxSpare}
    /\ cfgLen = Len(CachedConfig.Allowlists)
    /\ detShared = [r \in OvRequests |-> TRUE]
    /\ detArray = [r \in OvRequests |-> <<>>]
    /\ detLen = [r \in OvRequests |-> 0]
    /\ detRules = [r \in OvRequests |-> 0]
    /\ detExtras = [r \in OvRequests |-> NoExtras]
    /\ ovPc = [r \in OvRequests |-> "new"]
    /\ scannedWith = [r \in OvRequests |-> <<>>]
    /\ lpEntry = "listen"
    /\ lpAllowLocal = FALSE
    /\ lpRequest = [Kind |-> "Text", Local |-> FALSE, Resource |-> "url"]
    /\ lpPc = "done"
    /\ lpCloneFrom = "none"
    /\ lpScanned = "none"
    /\ lpCode = noCode

NextOverlay ==
    \/ \E r \in OvRequests : NewDetector(r) /\ UNCHANGED <<qvars, pvars, wvars, mvars, gvars, dvars, lvars, rvars, ivars, cvars, avars>>
    \/ \E r \in OvRequests : loadSourceConfig(r) /\ UNCHANGED <<qvars, pvars, wvars, mvars, gvars, dvars, lvars, rvars, ivars, cvars, avars>>
    \/ \E r \in OvRequests : DetectorScan(r) /\ UNCHANGED <<qvars, pvars, wvars, mvars, gvars, dvars, lvars, rvars, ivars, cvars, avars>>

SpecOverlay == InitOverlay /\ [][NextOverlay]_vars

\* The pattern cache of a scanner without autofetch, with a file at LocalPath
\* that ages and can be removed
InitOffline ==
    /\ maxSize = 0
    /\ heap = {}
    /\ nextId = 1
    /\ pumpPc = "check"
    /\ pumpMsg = NoMsg
    /\ sPc = [s \in Senders |-> "idle"]
    /\ sMsg = [s \in Senders |-> NoMsg]
    /\ spaceWaiters = <<>>
    /\ rPc = [r \in Receivers |-> "off"]
    /\ rMsg = [r \in Receivers |-> NoMsg]
    /\ delivered = {}
    /\ autofetch = FALSE
    /\ refreshAfter \in {0, 1}
    /\ expiredAfter \in {0, 2}
    /\ gitleaksConfig = Nil
    /\ gitleaksConfigHash = ZeroHash
    /\ localFile \in {NoFile} \cup Bodies
    /\ fileAge = 0
    /\ lastLoad = [seq |-> 0, fetch |-> NoFetch, write |-> "ok",
                   ret |-> Outcome("none", Nil, FALSE, Nil, ZeroHash, NoFile, FALSE)]
    /\ allowLocal = FALSE
    /\ scanTimeout = 0
    /\ reqs = <<>>
    /\ wDir = [w \in Receivers |-> NoDir]
    /\ wDefer = [w \in Receivers |-> FALSE]
    /\ dirs = {}
    /\ localDirs = {}
    /\ nextDir = 1
    /\ responses = <<>>
    /\ mutex = "free"
    /\ gPc = [w \in Receivers |-> "idle"]
    /\ gSaw = [w \in Receivers |-> FALSE]
    /\ gRet = [w \in Receivers |-> NoOutcome]
    /\ gitPc = "done"
    /\ gitWait = FALSE
    /\ gitExit = "none"
    /\ procs = {}
    /\ gitCtxDone = FALSE
    /\ gitCode = noCode
    /\ optsDepth = 0
    /\ maxScanDepth = 0
    /\ depthPc = "done"
    /\ cloneDepthArg = 0
    /\ scanDepthOpt = 0
    /\ lines = <<>>
    /\ nextLine = 1
    /\ listenPc = "exit"
    /\ accepted = <<>>
    /\ sent = {}
    /\ answered = {}
    /\ frRequestKind = ""
    /\ frFile = <<>>
    /\ frPc = "done"
    /\ frResult = [Kind |-> "", Path |-> <<>>, manifest |-> <<>>]
    /\ imgOpts = [Depth |-> 0, Since |-> 0, Exclusions |-> {}]
    /\ imgSource = [Depth |-> 0, Since |-> 0, Exclusions |-> {}]
    /\ imgLayers = <<>>
    /\ imgHistoriesMatch = TRUE
    /\ imgPc = "done"
    /\ imgIndex = 1
    /\ currentDepth = 0
    /\ imgScanned = {}
    /\ parseRaw = NoBody
    /\ parsePanics = FALSE
    /\ parsePc = "done"
    /\ parseResult = [cfg |-> Nil, err |-> FALSE]
    /\ ovKind = [r \in OvRequests |-> "Text"]
    /\ ovFiles = [r \in OvRequests |-> NoOverlay]
    /\ cfgArray = <<>>
    /\ cfgLen = 0
    /\ detShared = [r \in OvRequests |-> TRUE]
    /\ detArray = [r \in OvRequests |-> <<>>]
    /\ detLen = [r \in OvRequests |-> 0]
    /\ detRules = [r \in OvRequests |-> 0]
    /\ detExtras = [r \in OvRequests |-> NoExtras]
    /\ ovPc = [r \in OvRequests |-> "done"]
    /\ scannedWith = [r \in OvRequests |-> <<>>]
    /\ lpEntry = "listen"
    /\ lpAllowLocal = FALSE
    /\ lpRequest = [Kind |-> "Text", Local |-> FALSE, Resource |-> "url"]
    /\ lpPc = "done"
    /\ lpCloneFrom = "none"
    /\ lpScanned = "none"
    /\ lpCode = noCode

NextOffline ==
    \/ \E fetch \in FetchOutcomes, write \in WriteOutcomes :
         CallGitleaks(fetch, write) /\ UNCHANGED <<qvars, wvars, mvars, gvars, xvars>>
    \/ Tick /\ UNCHANGED <<lastLoad, qvars, wvars, mvars, gvars, xvars>>
    \/ RemoveLocalFile /\ UNCHANGED <<lastLoad, qvars, wvars, mvars, gvars, xvars>>

SpecOffline == InitOffline /\ [][NextOffline]_vars

\* One request from its construction to its scan
InitLocal ==
    /\ maxSize = 0
    /\ heap = {}
    /\ nextId = 1
    /\ pumpPc = "check"
    /\ pumpMsg = NoMsg
    /\ sPc = [s \in Senders |-> "idle"]
    /\ sMsg = [s \in Senders |-> NoMsg]
    /\ spaceWaiters = <<>>
    /\ rPc = [r \in Receivers |-> "off"]
    /\ rMsg = [r \in Receivers |-> NoMsg]
    /\ delivered = {}
    /\ autofetch = FALSE
    /\ refreshAfter = 0
    /\ expiredAfter = 0
    /\ gitleaksConfig = Nil
    /\ gitleaksConfigHash = ZeroHash
    /\ localFile = NoFile
    /\ fileAge = 0
    /\ lastLoad = [seq |-> 0, fetch |-> NoFetch, write |-> "ok",
                   ret |-> Outcome("none", Nil, FALSE, Nil, ZeroHash, NoFile, FALSE)]
    /\ allowLocal = FALSE
    /\ scanTimeout = 0
    /\ reqs = <<>>
    /\ wDir = [w \in Receivers |-> NoDir]
    /\ wDefer = [w \in Receivers |-> FALSE]
    /\ dirs = {}
    /\ localDirs = {}
    /\ nextDir = 1
    /\ responses = <<>>
    /\ mutex = "free"
    /\ gPc = [w \in Receivers |-> "idle"]
    /\ gSaw = [w \in Receivers |-> FALSE]
    /\ gRet = [w \in Receivers |-> NoOutcome]
    /\ gitPc = "done"
    /\ gitWait = FALSE
    /\ gitExit = "none"
    /\ procs = {}
    /\ gitCtxDone = FALSE
    /\ gitCode = noCode
    /\ optsDepth = 0
    /\ maxScanDepth = 0
    /\ depthPc = "done"
    /\ cloneDepthArg = 0
    /\ scanDepthOpt = 0
    /\ lines = <<>>
    /\ nextLine = 1
    /\ listenPc = "exit"
    /\ accepted = <<>>
    /\ sent = {}
    /\ answered = {}
    /\ frRequestKind = ""
    /\ frFile = <<>>
    /\ frPc = "done"
    /\ frResult = [Kind |-> "", Path |-> <<>>, manifest |-> <<>>]
    /\ imgOpts = [Depth |-> 0, Since |-> 0, Exclusions |-> {}]
    /\ imgSource = [Depth |-> 0, Since |-> 0, Exclusions |-> {}]
    /\ imgLayers = <<>>
    /\ imgHistoriesMatch = TRUE
    /\ imgPc = "done"
    /\ imgIndex = 1
    /\ currentDepth = 0
    /\ imgScanned = {}
    /\ parseRaw = NoBody
    /\ parsePanics = FALSE
    /\ parsePc = "done"
    /\ parseResult = [cfg |-> Nil, err |-> FALSE]
    /\ ovKind = [r \in OvRequests |-> "Text"]
    /\ ovFiles = [r \in OvRequests |-> NoOverlay]
    /\ cfgArray = <<>>
    /\ cfgLen = 0
    /\ detShared = [r \in OvRequests |-> TRUE]
    /\ detArray = [r \in OvRequests |-> <<>>]
    /\ detLen = [r \in OvRequests |-> 0]
    /\ detRules = [r \in OvRequests |-> 0]
    /\ detExtras = [r \in OvRequests |-> NoExtras]
    /\ ovPc = [r \in OvRequests |-> "done"]
    /\ scannedWith = [r \in OvRequests |-> <<>>]
    /\ lpEntry \in {"scan", "listen"}
    /\ lpAllowLocal \in BOOLEAN
    /\ lpRequest \in [Kind : {"GitRepo", "Files", "Text"}, Local : BOOLEAN,
                     Resource : Resources]
    /\ lpPc = "build"
    /\ lpCloneFrom = "none"
    /\ lpScanned = "none"
    /\ lpCode = noCode

NextLocal ==
    \/ BuildRequest /\ UNCHANGED <<qvars, pvars, wvars, mvars, gvars, dvars, lvars, rvars, ivars, cvars, ovars>>
    \/ \E cloned \in BOOLEAN : LocalRoute(cloned) /\ UNCHANGED <<qvars, pvars, wvars, mvars, gvars, dvars, lvars, rvars, ivars, cvars, ovars>>
    \/ LocalScan /\ UNCHANGED <<qvars, pvars, wvars, mvars, gvars, dvars, lvars, rvars, ivars, cvars, ovars>>

SpecLocal == InitLocal /\ [][NextLocal]_vars

\* -------------------------------------------------------------- properties
Last(s) == s[Len(s)]

\* The receivers are all running in Recv
ReceiversRunning == \A r \in Receivers : rPc[r] # "off"

\* The goroutines inside the queue's code and the callbacks can take no step
QueueQuiet == ~ENABLED QueueStep

\* Identities of the messages pushed by Send so far
Pushed ==
    (1 .. nextId - 1) \
      {sMsg[s].id : s \in {x \in Senders : sPc[x] \in {"check", "towait", "waiting", "push"}}}

InHeap == {m.id : m \in heap}
InPump == IF pumpMsg = NoMsg THEN {} ELSE {pumpMsg.id}
InCallbacks == {d.msg.id : d \in delivered}

\* C1: when the forwarding goroutine hands a message to a Recv callback, no
\* message that Send has put in the queue and that is not yet delivered has a
\* higher priority than the one handed over.
C1_HigherPriorityFirst ==
    [][(pumpPc = "handoff" /\ pumpPc' = "notify")
         => \A m \in heap : m.Priority <= pumpMsg.Priority]_vars

\* C2: with maxSize > 0, Size() is at most maxSize in every reachable state.
C2_SizeBounded == maxSize > 0 => Size <= maxSize

\* C3: with maxSize > 0 and the receivers running, no call of Send is left
\* inside Send once the queue has space again and the queue's goroutines and
\* the callbacks can take no further step: every Send has returned.
C3_SendReturns ==
    (maxSize > 0 /\ ReceiversRunning /\ QueueQuiet /\ Size < maxSize)
      => \A s \in Senders : sPc[s] = "idle"

\* C4: with the receivers running, no message whose Send has returned is left
\* undelivered once the queue's goroutines and the callbacks can take no further
\* step: the heap and the forwarding goroutine hold nothing.
C4_SentIsDelivered ==
    (ReceiversRunning /\ QueueQuiet /\ \A s \in Senders : sPc[s] = "idle")
      => heap = {} /\ pumpMsg = NoMsg

\* C6: every message pushed by Send is in exactly one place (the heap, the
\* forwarding goroutine, or handed to a callback), it is handed to the callback
\* of one receiver only, and a callback runs on a message handed to it.
C6_OneWorkerPerRequest ==
    /\ Pushed = InHeap \cup InPump \cup InCallbacks
    /\ InHeap \cap InPump = {}
    /\ InHeap \cap InCallbacks = {}
    /\ InPump \cap InCallbacks = {}
    /\ \A d1, d2 \in delivered : d1.msg.id = d2.msg.id => d1 = d2
    /\ \A r1, r2 \in Receivers :
         (rMsg[r1] # NoMsg /\ rMsg[r1] = rMsg[r2]) => r1 = r2
    /\ \A r \in Receivers :
         rMsg[r] # NoMsg => [msg |-> rMsg[r], by |-> r] \in delivered

\* Two workers were blocked in Recv, each was handed a request, and every
\* request sent has reached a callback
C6_Witness ==
    /\ nextId = MaxMsgs + 1
    /\ Pushed = 1 .. MaxMsgs
    /\ InCallbacks = Pushed
    /\ \E d1, d2 \in delivered : d1.by # d2.by

\* C5: at most one Response is sent for each request passed to Scanner.Send,
\* and it carries that request's id.
C5_AtMostOneResponse ==
    \A i \in 1 .. Len(responses) :
      /\ Len(responses[i]) <= 1
      /\ \A k \in 1 .. Len(responses[i]) : responses[i][k].RequestID = reqs[i].ID

\* Two requests were answered, one with results and no error, one on an error
\* path, and both callbacks have returned
C5_Witness ==
    /\ Len(responses) = 2
    /\ \A w \in Receivers : rPc[w] = "recv"
    /\ \E i, j \in 1 .. 2 :
         /\ Len(responses[i]) = 1 /\ responses[i][1].Code = noCode
         /\ Len(responses[j]) = 1 /\ responses[j][1].Code # noCode

\* C7: a directory under {workdir}/clones exists only while the request it was
\* created for is in a worker's callback.
C7_CloneRemoved ==
    \A d \in dirs : \E w \in Receivers : rMsg[w] # NoMsg /\ rMsg[w].id = d.req

\* C8: a Response for a request whose deadline cut short the pattern load, the
\* clone or the detector run carries Error.Code 6.
C8_DeadlineIsTimeout ==
    \A i \in 1 .. Len(responses) : \A k \in 1 .. Len(responses[i]) :
      responses[i][k].cut # "none" => responses[i][k].Code = timeoutErrorCode

\* C9: a request is answered with the config error (code 2) only when no
\* config is held in memory at the time its callback loads the patterns.
C9_PriorConfigServes ==
    [][\A i \in 1 .. Len(responses) :
         (Len(responses'[i]) > Len(responses[i])
            /\ Last(responses'[i]).Code = configErrorCode)
           => gitleaksConfig = Nil]_vars

\* The latest call of Gitleaks took the refresh branch and the refresh failed:
\* transport error, status other than 200, or a body ParseConfig rejects
RefreshFailed(call) ==
    /\ call.ret.branch = "fetch"
    /\ call.fetch.status # "200" \/ ParseConfig(call.fetch.body).err

\* C10: a call of Gitleaks whose refresh attempt fails returns an error and
\* leaves the bytes at LocalPath, the in-memory config and the hash unchanged.
C10_FailedRefreshKeepsAll ==
    [][(lastLoad'.seq # lastLoad.seq /\ RefreshFailed(lastLoad'))
         => /\ lastLoad'.ret.err
            /\ localFile' = localFile
            /\ gitleaksConfig' = gitleaksConfig
            /\ gitleaksConfigHash' = gitleaksConfigHash]_vars

\* A refresh failed on a body that does not validate while a config was held
\* in memory and a file was at LocalPath
C10_Witness ==
    /\ RefreshFailed(lastLoad)
    /\ lastLoad.fetch = [status |-> "200", body |-> NoRulesBody]
    /\ gitleaksConfig # Nil
    /\ gitleaksConfigHash # ZeroHash
    /\ localFile = GoodBody

\* Callers inside c.mutex
InsideGitleaks == {w \in Receivers : gPc[w] \in {"fetch", "local"}}

C12_SubprocessesKilled ==
    (scanTimeout > 0 /\ gitCtxDone /\ ~ENABLED GitStep)
      => procs = {} /\ gitPc = "done"

\* The request is one the scanner must refuse: allowLocal is false and the
\* request reads a local path
LocalRefused(i) ==
    /\ ~allowLocal
    /\ \/ reqs[i].Kind = "GitRepo" /\ reqs[i].Local
       \/ reqs[i].Kind = "Files"

\* C13 as stated: with allowLocal = false every Response to a local GitRepo
\* or a Files request carries Error.Code 3 and no Results.
C13_LocalAlwaysCode3 ==
    \A i \in 1 .. Len(responses) : \A k \in 1 .. Len(responses[i]) :
      LocalRefused(i) => /\ responses[i][k].Code = localScanNotAllowedCode
                         /\ responses[i][k].Results = <<>>

\* C13 amended: with allowLocal = false, a local GitRepo or a Files request
\* whose pattern load succeeded is answered with Error.Code 3 and no Results
\* in the very step that looks at its kind, which creates no clone directory;
\* its callback never reaches the overlay load and the detector scan. The
\* only other answer such a request gets is the config error of a failed load.
C13_LocalRefusedAfterLoad ==
    /\ [](\A w \in Receivers :
            (rMsg[w] # NoMsg /\ LocalRefused(rMsg[w].id)) => rPc[w] # "scan")
    /\ [](\A i \in 1 .. Len(responses) : \A k \in 1 .. Len(responses[i]) :
            LocalRefused(i)
              => /\ responses[i][k].Code \in {localScanNotAllowedCode, configErrorCode}
                 /\ responses[i][k].Results = <<>>)
    /\ [][\A w \in Receivers :
            (rPc[w] = "route" /\ LocalRefused(rMsg[w].id) /\ rPc'[w] # "route")
              => /\ rPc'[w] = "recv"
                 /\ Len(responses'[rMsg[w].id]) = Len(responses[rMsg[w].id]) + 1
                 /\ Last(responses'[rMsg[w].id]).Code = localScanNotAllowedCode
                 /\ Last(responses'[rMsg[w].id]).Results = <<>>
                 /\ dirs' = dirs
                 /\ nextDir' = nextDir]_vars

\* A Files request and a local GitRepo request have both been refused
C13_Witness ==
    /\ ~allowLocal
    /\ \E i, j \in 1 .. Len(responses) :
         /\ reqs[i].Kind = "Files" /\ reqs[j].Kind = "GitRepo" /\ reqs[j].Local
         /\ Len(responses[i]) = 1 /\ Len(responses[j]) = 1
         /\ responses[i][1].Code = localScanNotAllowedCode
         /\ responses[j][1].Code = localScanNotAllowedCode
         /\ dirs = {}

\* Every Response sent so far
AllResponses ==
    {responses[i][k] : <<i, k>> \in
       {x \in (1 .. Len(responses)) \X (1 .. 1 + MaxRequests) :
          x[2] <= Len(responses[x[1]])}}

\* C14: a Response's Error.Code, when Error is set, is one of 1..6; Results
\* are non-empty together with an Error only for code 4, and a Response with
\* code 1, 2, 3, 5 or 6 has empty Results.
C14_ResultsOnlyWithScanError ==
    \A r \in AllResponses :
      /\ r.Code \in {noCode, cloneErrorCode, configErrorCode,
                     localScanNotAllowedCode, scanErrorCode, sourceErrorCode,
                     timeoutErrorCode}
      /\ (r.Code # noCode /\ r.Results # <<>>) => r.Code = scanErrorCode
      /\ r.Code \in {cloneErrorCode, configErrorCode, localScanNotAllowedCode,
                     sourceErrorCode, timeoutErrorCode} => r.Results = <<>>

\* A scan error was reported together with findings, and another request was
\* answered on an error path without results
C14_Witness ==
    \E r, e \in AllResponses :
      /\ r.Code = scanErrorCode /\ r.Results # <<>>
      /\ e.Code \notin {noCode, scanErrorCode} /\ e.Results = <<>>

\* C15: every Response has Kind "ScanResults" and a RequestID that is the ID
\* of a request submitted before.
C15_ResponseCorrelates ==
    \A r \in AllResponses :
      /\ r.Kind = "ScanResults"
      /\ \E j \in 1 .. Len(reqs) : reqs[j].ID = r.RequestID

\* Every submitted request was answered, the responses naming different requests
C15_Witness ==
    /\ Len(reqs) = MaxRequests
    /\ {r.RequestID : r \in AllResponses} = {reqs[j].ID : j \in 1 .. Len(reqs)}
    /\ \E r \in AllResponses : r.Results # <<>>

\* C16: every Response is queued with the priority of its request,
\* Opts.Priority, on the success path and on every error path.
C16_ResponseKeepsPriority ==
    \A i \in 1 .. Len(responses) : \A k \in 1 .. Len(responses[i]) :
      responses[i][k].Priority = reqs[i].Priority

\* Two requests of different priorities were answered, one without error and
\* one through respondWithError
C16_Witness ==
    \E i, j \in 1 .. Len(responses) :
      /\ reqs[i].Priority = 1 /\ reqs[j].Priority = 0
      /\ Len(responses[i]) = 1 /\ Len(responses[j]) = 1
      /\ responses[i][1].Code \in {cloneErrorCode, timeoutErrorCode}
      /\ responses[i][1].Priority = 1
      /\ responses[j][1].Code = noCode
      /\ responses[j][1].Priority = 0

\* Requests that read a local path, by id
LocalRequests == {i \in 1 .. Len(reqs) : ReadsLocalPath(reqs[i])}

\* C17: the local path of a GitRepo request with Opts.Local or of a Files
\* request is never removed; a worker on such a request creates no directory
\* under clones and has no removal registered; and a removal takes away only
\* the directory under clones that the removing worker's request was cloned to.
C17_LocalPathUntouched ==
    /\ [](localDirs = {LocalPath(i) : i \in LocalRequests})
    /\ [](\A d \in dirs : d.req \notin LocalRequests)
    /\ [](\A w \in Receivers :
            (rMsg[w] # NoMsg /\ rMsg[w].id \in LocalRequests) => ~wDefer[w])
    /\ [][\A w \in Receivers :
            (rMsg[w] # NoMsg /\ rMsg[w].id \in LocalRequests /\ rPc'[w] # rPc[w])
              => dirs' = dirs /\ nextDir' = nextDir]_vars
    /\ [][\A d \in dirs \ dirs' :
            \E w \in Receivers :
              /\ rPc[w] = "scan" /\ rPc'[w] = "recv"
              /\ ~Request(w).Local
              /\ wDir[w] = d.id /\ d.req = Request(w).ID]_vars

\* A local repository was scanned and is still there, and the clone of another
\* request was removed after its scan
C17_Witness ==
    /\ allowLocal
    /\ dirs = {}
    /\ nextDir > 1
    /\ \E i, j \in 1 .. Len(responses) :
         /\ reqs[i].Kind = "GitRepo" /\ reqs[i].Local
         /\ Len(responses[i]) = 1 /\ responses[i][1].Code = noCode
         /\ LocalPath(i) \in localDirs
         /\ reqs[j].Kind = "GitRepo" /\ ~reqs[j].Local
         /\ Len(responses[j]) = 1 /\ responses[j][1].Code = noCode

\* C18: with maxSize = k > 0 and no receiver running, no more than k calls of
\* Send return, and once k have returned the next Send does not get past its
\* loop to insert its message.
C18_SendBlocksWhenFull ==
    (maxSize > 0 /\ \A r \in Receivers : rPc[r] = "off")
      => /\ Cardinality(Returned) <= maxSize
         /\ Cardinality(Returned) = maxSize
              => \A s \in Senders : sPc[s] \notin {"push", "signal"}

\* C19: each time the forwarding goroutine removes a message from the heap,
\* no message left in the heap has a higher priority than the removed one.
C19_PopTakesHighest ==
    [][(pumpPc = "pop" /\ pumpPc' = "handoff")
         => /\ pumpMsg' \in heap
            /\ heap' = heap \ {pumpMsg'}
            /\ \A m \in heap' : m.Priority <= pumpMsg'.Priority]_vars

\* The forwarding goroutine holds a message sent after one of lower priority
\* that is still waiting in the heap
C19_Witness ==
    /\ pumpPc = "handoff"
    /\ \E m \in heap : m.id < pumpMsg.id /\ m.Priority < pumpMsg.Priority

\* The messages sent so far, wherever they are
AllSent ==
    heap \cup ({pumpMsg} \ {NoMsg}) \cup {d.msg : d \in delivered}

\* Every message was sent, one after the other, with priorities that differ
\* pairwise, before the receiver started, and the receiver has got the first
FirstDelivered ==
    /\ Returned = 1 .. MaxMsgs
    /\ Cardinality(AllSent) = MaxMsgs
    /\ \A m, o \in AllSent : m.Priority = o.Priority => m = o
    /\ Cardinality(delivered) = 1

\* C20: with one worker and messages of pairwise distinct priorities all sent
\* before the client starts receiving, the client gets them in one order in
\* every execution: the order of their priorities, which is the order an
\* execution yields in which the forwarding goroutine has taken none of them
\* before the last is sent.
C20_DeliveryOrderFixed ==
    FirstDelivered
      => \A d \in delivered : \A m \in AllSent : m.Priority <= d.msg.Priority

\* The same messages as in the execution that breaks the order of priorities,
\* sent in the same order, delivered the other way round: the first message
\* got is the one sent last
C20_Witness ==
    /\ FirstDelivered
    /\ \A d \in delivered :
         /\ d.msg.id = MaxMsgs
         /\ \A m \in AllSent : m.Priority <= d.msg.Priority
                               /\ (m # d.msg => m.id < d.msg.id)

\* C21: with autofetch enabled and no file at LocalPath, a call of Gitleaks
\* takes the refresh branch and asks the pattern server, whatever refreshAfter.
C21_MissingFileIsStale ==
    [][(lastLoad'.seq # lastLoad.seq /\ autofetch /\ localFile = NoFile)
         => lastLoad'.ret.branch = "fetch"]_vars

\* C22: a call of Gitleaks fails with the "expired" error only when autofetch
\* is disabled, no config is held in memory, expiredAfter > 0 and the file at
\* LocalPath is older than expiredAfter (or cannot be stat'ed).
C22_ExpiredOnlyWithoutAutofetch ==
    [][(lastLoad'.seq # lastLoad.seq /\ lastLoad'.ret.branch = "expired")
         => /\ ~autofetch
            /\ gitleaksConfig = Nil
            /\ expiredAfter > 0
            /\ localFile = NoFile \/ fileAge > expiredAfter]_vars

\* C29: after a call of Gitleaks that took the refresh branch and returned no
\* error, the file at LocalPath is the fetched body, the config in memory is
\* what ParseConfig makes of that body and the hash is the body's SHA-256;
\* and whenever the refresh branch wrote to LocalPath, wholly or in part,
\* ParseConfig had accepted the body.
C29_RefreshStoresFetchedBody ==
    /\ [][(lastLoad'.seq # lastLoad.seq /\ lastLoad'.ret.branch = "fetch"
             /\ ~lastLoad'.ret.err)
            => /\ lastLoad'.fetch.status = "200"
               /\ localFile' = lastLoad'.fetch.body
               /\ ~ParseConfig(lastLoad'.fetch.body).err
               /\ gitleaksConfig' = ParseConfig(lastLoad'.fetch.body).cfg
               /\ lastLoad'.ret.cfg = gitleaksConfig'
               /\ gitleaksConfigHash' = Sha256(lastLoad'.fetch.body)]_vars
    /\ [][(lastLoad'.seq # lastLoad.seq /\ lastLoad'.ret.branch = "fetch"
             /\ lastLoad'.ret.wrote)
            => ~ParseConfig(lastLoad'.fetch.body).err]_vars

\* A refresh stored the fetched body, its parse and its hash
C29_Witness ==
    /\ lastLoad.ret.branch = "fetch"
    /\ ~lastLoad.ret.err
    /\ lastLoad.fetch.body = NewBody
    /\ localFile = NewBody
    /\ gitleaksConfig = ParseConfig(NewBody).cfg
    /\ gitleaksConfigHash = Sha256(NewBody)
    /\ fileAge = 0

\* C30: configModTimeExceeds is false for the limit 0, file or no file; for a
\* limit > 0 it is true when there is no file to stat, and otherwise true
\* exactly when the file's age in whole seconds is greater than the limit.
C30_ModTimeExceeds ==
    \A limit \in 0 .. MaxAge :
      configModTimeExceeds(limit) =
        IF limit = 0
          THEN FALSE
          ELSE IF localFile = NoFile THEN TRUE ELSE fileAge > limit

\* The file is two seconds old: older than RefreshAfter = 1, not older than
\* ExpiredAfter = 2; and a state with no file and RefreshAfter = 0 exists too
C30_Witness ==
    /\ localFile # NoFile
    /\ fileAge = expiredAfter
    /\ refreshAfter > 0
    /\ configModTimeExceeds(refreshAfter)
    /\ ~configModTimeExceeds(expiredAfter)
    /\ ~configModTimeExceeds(0)

\* C23: for a remote GitRepo request with Opts.Depth = p on a scanner with
\* maxScanDepth = m, the scan uses the depth d = (m > 0 ? min(p > 0 ? p : m, m) : p)
\* and the clone uses d + 1, both being 0 (no limit) when p = m = 0.
C23_DepthCapped ==
    depthPc = "done"
      => LET p == optsDepth
             m == maxScanDepth
             q == IF p > 0 THEN p ELSE m
             d == IF m > 0 THEN (IF q < m THEN q ELSE m) ELSE p
         IN  /\ scanDepthOpt = d
             /\ cloneDepthArg = IF p = 0 /\ m = 0 THEN 0 ELSE d + 1

\* The line at position i does not decode into a Request: it is not JSON, a
\* field has the wrong type, or its kind label is none of the six
Undecodable(i) ==
    \/ lines[i].json # "object"
    \/ lines[i].kind \notin Kinds

\* C24: a line that does not decode into a Request is never sent to the
\* scanner and gets no Response, and the loop goes on: when runListen returns
\* it has read every line, and every line that decodes and names a resource
\* was sent and answered.
C24_BadLineSkipped ==
    /\ \A i \in 1 .. Len(lines) :
         Undecodable(i) => i \notin sent /\ i \notin answered
    /\ listenPc = "exit"
         => /\ nextLine = Len(lines) + 1
            /\ \A i \in 1 .. Len(lines) :
                 (~Undecodable(i) /\ lines[i].resource # "")
                   => i \in sent /\ i \in answered

\* runListen has returned after a line with the kind "Mystery" followed by a
\* valid request, which alone was answered
C24_Witness ==
    /\ listenPc = "exit"
    /\ Len(lines) = 2
    /\ lines[1] = [json |-> "object", kind |-> "Mystery", resource |-> "http://h"]
    /\ lines[2] = [json |-> "object", kind |-> "Text", resource |-> "http://h"]
    /\ sent = {2}
    /\ answered = {2}

\* C25: every Request that Request.UnmarshalJSON returns without error has one
\* of the six kinds and a non-empty Resource.
C25_AcceptedIsComplete ==
    \A k \in 1 .. Len(accepted) :
      /\ accepted[k].Kind \in Kinds
      /\ accepted[k].Resource # ""

\* The part of file after its first "!"
AfterBang(file) ==
    LET i == CHOOSE j \in SepAt(file, "!") : \A k \in SepAt(file, "!") : j <= k
    IN  SubSeq(file, i + 1, Len(file))

\* C26: for a ContainerImage request, a finding whose path contains "layers/"
\* and a "!" gets Kind ContainerLayer and the part after "!" as Location.Path,
\* every other finding gets Kind ContainerMetadata, and no Result has an
\* empty Kind.
C26_ContainerResultKind ==
    (frPc = "done" /\ frRequestKind = "ContainerImage")
      => /\ frResult.Kind # ""
         /\ IF ContainsLayers(frFile) /\ SepAt(frFile, "!") # {}
              THEN /\ frResult.Kind = ContainerLayerResultKind
                   /\ frResult.Path = AfterBang(frFile)
              ELSE frResult.Kind = ContainerMetdataResultKind

\* Worker w is between the clone and the end of the scan of a remote GitRepo
\* request
CloneInProgress(w) ==
    /\ rPc[w] = "scan"
    /\ Request(w).Kind = "GitRepo"
    /\ ~Request(w).Local

\* C27: two remote GitRepo requests in progress on different workers have
\* different clone directories; every directory under clones was created for
\* one request only; and a step that leaves a worker in progress leaves its
\* clone directory in place.
C27_CloneDirsIsolated ==
    /\ [](\A w1, w2 \in Receivers :
            (w1 # w2 /\ CloneInProgress(w1) /\ CloneInProgress(w2))
              => wDir[w1] # wDir[w2])
    /\ [](\A d1, d2 \in dirs : d1.id = d2.id => d1.req = d2.req)
    /\ [](\A w \in Receivers :
            CloneInProgress(w)
              => [id |-> wDir[w], req |-> Request(w).ID] \in dirs)
    /\ [][\A w \in Receivers :
            (CloneInProgress(w) /\ rPc'[w] = "scan")
              => [id |-> wDir[w], req |-> Request(w).ID] \in dirs']_vars

\* Both workers hold the clone of a remote GitRepo request, each its own
C27_Witness ==
    /\ \A w \in Receivers : CloneInProgress(w)
    /\ Cardinality({wDir[w] : w \in Receivers}) = 2
    /\ Cardinality(dirs) = 2

\* C28: no layer whose digest is in request.Opts.Exclusions is scanned, and
\* no layer whose history entry is dated before request.Opts.Since is scanned.
C28_ExcludedLayersSkipped ==
    \A i \in imgScanned :
      /\ imgLayers[i].Digest \notin imgOpts.Exclusions
      /\ (imgOpts.Since # NoDate /\ imgHistoriesMatch /\ imgLayers[i].Created # NoDate)
           => ~(imgLayers[i].Created < imgOpts.Since)

\* The pattern file decodes, translates without panic, has a rule or an
\* allowlist, and each of its allowlists allows something
Acceptable ==
    /\ parseRaw.decodes
    /\ parseRaw.translates
    /\ ~parsePanics
    /\ parseRaw.rules > 0 \/ Len(parseRaw.allowlists) > 0
    /\ \A i \in 1 .. Len(parseRaw.allowlists) : parseRaw.allowlists[i]

\* C31: ParseConfig returns a config and no error exactly when the text
\* decodes and translates, has a rule or an allowlist, and every allowlist
\* has a non-empty dimension; in every other case, a panic of the translation
\* included, it returns an error.
C31_ParseConfigAccepts ==
    parsePc = "done"
      => /\ Acceptable <=> (~parseResult.err /\ ~parseResult.cfg.nil)
         /\ ~Acceptable => parseResult.err
         /\ Acceptable
              => /\ parseResult.cfg.Rules = parseRaw.rules
                 /\ parseResult.cfg.Allowlists = parseRaw.allowlists

\* ParseConfig accepted a file with no rule and two allowlists
C31_Witness ==
    /\ parsePc = "done"
    /\ ~parseResult.err
    /\ parseRaw.rules = 0
    /\ parseRaw.allowlists = <<TRUE, TRUE>>

\* What the overlay of request r adds to its detector's allowlists: those of
\* .gitleaks.toml when it is read and parses, nothing otherwise
OverlayAllowlists(r) ==
    IF ovFiles[r].config = "ok" /\ ~ParseConfig(ovFiles[r].body).err
      THEN AllowlistsOf(r, ParseConfig(ovFiles[r].body).cfg)
      ELSE <<>>

\* C32: loadSourceConfig runs for GitRepo and Files requests only; it leaves
\* the rules of the detector as they are, appends the allowlists of the
\* overlay file when that file is read and parses and nothing otherwise, and
\* always goes on to the scan.
C32_OverlayOnlyAppends ==
    /\ [](\A r \in OvRequests : ovPc[r] = "load" => ovKind[r] \in {"GitRepo", "Files"})
    /\ [](\A r \in OvRequests :
            (ovPc[r] \in {"scan", "done"} /\ ovKind[r] \notin {"GitRepo", "Files"})
              => /\ Allowlists(r) = AllowlistsOf("cache", CachedConfig)
                 /\ detExtras[r] = NoExtras)
    /\ [](\A r \in OvRequests :
            ovPc[r] \in {"load", "scan", "done"} => detRules[r] = CachedConfig.Rules)
    /\ [][\A r \in OvRequests :
            (ovPc[r] = "load" /\ ovPc'[r] # "load")
              => /\ ovPc'[r] = "scan"
                 /\ detRules'[r] = detRules[r]
                 /\ Allowlists(r)' = Allowlists(r) \o OverlayAllowlists(r)]_vars

\* A GitRepo request whose overlay gave an allowlist and a Files request whose
\* overlay does not parse, both past loadSourceConfig
C32_Witness ==
    /\ ovKind["A"] = "GitRepo" /\ ovKind["B"] = "Files"
    /\ ovFiles["A"].config = "ok" /\ ovFiles["A"].body = GoodBody
    /\ ovFiles["B"].config = "ok" /\ ovFiles["B"].body = NotTomlBody
    /\ ovPc["A"] = "scan" /\ ovPc["B"] = "scan"
    /\ Len(Allowlists("A")) = 2
    /\ Len(Allowlists("B")) = 1

\* C36: a request scans with the allowlists of the pattern file and of its own
\* overlay and no others, and the allowlists of the cached config stay those
\* of the pattern file.
C36_OverlayIsolated ==
    /\ SubSeq(cfgArray, 1, cfgLen) = AllowlistsOf("cache", CachedConfig)
    /\ \A r \in OvRequests :
         ovPc[r] = "done"
           => scannedWith[r] = AllowlistsOf("cache", CachedConfig) \o OverlayAllowlists(r)

\* C33: the forwarding goroutine never takes a message from an empty heap:
\* what it hands off was in the heap; at the pop with the heap empty it
\* removes nothing and goes back to the size check, and from the size check
\* with the heap empty it goes to wait.
C33_NoPopFromEmpty ==
    /\ [](pumpPc = "handoff" => pumpMsg # NoMsg)
    /\ [][(pumpPc = "pop" /\ pumpPc' # "pop")
            => IF heap = {}
                 THEN pumpPc' = "check" /\ heap' = {} /\ pumpMsg' = NoMsg
                 ELSE pumpPc' = "handoff" /\ pumpMsg' \in heap]_vars
    /\ [][(pumpPc = "check" /\ pumpPc' # "check" /\ heap = {})
            => pumpPc' = "towait"]_vars

\* The forwarding goroutine was woken and holds heapMutex with the heap empty
C33_Witness ==
    /\ pumpPc = "pop"
    /\ heap = {}
    /\ delivered # {}

\* C34: a worker sends no Response for its request before the end of the
\* callback, and each return of the callback comes with exactly one Response
\* for the request of that callback.
C34_RespondsOnEveryReturn ==
    /\ [](\A w \in Receivers :
            rMsg[w] # NoMsg => responses[rMsg[w].id] = <<>>)
    /\ [][\A w \in Receivers :
            (rMsg[w] # NoMsg /\ rMsg'[w] = NoMsg)
              => /\ Len(responses'[rMsg[w].id]) = 1
                 /\ responses'[rMsg[w].id][1].RequestID = rMsg[w].id]_vars

\* Two callbacks have returned, one after a failed pattern load and one after
\* absGitDir failed, and each request has its Response
C34_Witness ==
    /\ Len(responses) = 2
    /\ \A w \in Receivers : rMsg[w] = NoMsg
    /\ \E i, j \in 1 .. 2 :
         /\ Len(responses[i]) = 1 /\ responses[i][1].Code = configErrorCode
         /\ Len(responses[j]) = 1 /\ responses[j][1].Code = sourceErrorCode

C37_HashOfHeldConfig ==
    IF gitleaksConfig = Nil
      THEN gitleaksConfigHash = ZeroHash
      ELSE \E b \in Bodies :
             /\ ~ParseConfig(b).err
             /\ ParseConfig(b).cfg = gitleaksConfig
             /\ gitleaksConfigHash = Sha256(b)

\* C38: with autofetch disabled and a config held in memory, a call of
\* Gitleaks returns that config without error from memory, and leaves the
\* config, the hash and the file at LocalPath as they are.
C38_LoadedConfigStays ==
    [][(lastLoad'.seq # lastLoad.seq /\ ~autofetch /\ gitleaksConfig # Nil)
         => /\ lastLoad'.ret.branch = "memory"
            /\ ~lastLoad'.ret.err
            /\ lastLoad'.ret.cfg = gitleaksConfig
            /\ gitleaksConfig' = gitleaksConfig
            /\ gitleaksConfigHash' = gitleaksConfigHash
            /\ localFile' = localFile]_vars

\* A call was served from memory after the file at LocalPath was removed, at
\* an age beyond expiredAfter
C38_Witness ==
    /\ ~autofetch
    /\ lastLoad.ret.branch = "memory"
    /\ lastLoad.ret.cfg # Nil
    /\ localFile = NoFile
    /\ expiredAfter > 0
    /\ fileAge > expiredAfter

\* C39: with allowLocal = false nothing under a path of this machine is
\* scanned, and no clone is made from such a path.
C39_NoLocalContent ==
    ~lpAllowLocal => lpScanned # "local" /\ lpCloneFrom # "path"

====
